---- MODULE Spec2Model ----
(***************************************************************************)
(* Verification model of the bitbelay test engine: the accumulator state   *)
(* machines of the chi-squared goodness-of-fit Test, the strict avalanche  *)
(* criterion Test and its Experiment, and the bitwise correlation Test,    *)
(* together with the statistics primitives they reduce to verdicts with,   *)
(* the constructors of the Tests, the builders of Test-sections, Reports   *)
(* and Suites, and the Suites that run Tests and render their Report.      *)
(*                                                                         *)
(* Real numbers (f64) are modelled as exact rationals <<num, den>> with    *)
(* den > 0; a value 0/0 is the pair <<0, 0>> (NaN).  An Option is a        *)
(* sequence of length 0 (None) or 1 (Some).                                *)
(***************************************************************************)
EXTENDS Integers, Sequences, FiniteSets, TLC

(***************************************************************************)
(* Bounds of the model.                                                    *)
(***************************************************************************)
\* Largest number of buckets a goodness-of-fit Test is constructed with.
MaxBuckets == 2

\* Largest number of single_iteration() calls on one goodness-of-fit Test.
MaxIterations == 11

\* Number of low digest bits a hasher of the model can set (digests are u64).
HashBits == 3

\* The const generic N of the avalanche and correlation Tests: the number of
\* output bit positions they track (64 in the command line tool).
N == 2

\* Largest number of iterations one Experiment::run is called with.
MaxRunIterations == 3

\* Largest number of successful run_single_experiment() calls on one Test.
MaxExperiments == 2

\* Largest `iterations` of one run() call on a bitwise correlation Test.
MaxBatch == 2

\* Largest number of samples one bitwise correlation Test accumulates.
MaxSamples == 4

\* Largest number of modules or sections pushed on one builder.
MaxPushes == 2

\* Largest number of run_* calls on one Suite that return without an error.
MaxTests == 2

(***************************************************************************)
(* State.                                                                  *)
(***************************************************************************)
\* Chi-squared goodness-of-fit Test (goodness_of_fit.rs).
VARIABLES
    gof_buckets,      \* Test::buckets: Vec<usize>
    gof_threshold,    \* Test::threshold: f64
    gof_num_buckets,  \* history: the num_buckets Test::new was called with
    gof_calls,        \* history: number of single_iteration() calls made
    gof_cdf,          \* what the library's ChiSquared cdf yields on the current buckets
    gof_p_value,      \* outcome of the last p_value() on the current state
    gof_module        \* outcome of the last report_section() on the current state

gofVars == << gof_buckets, gof_threshold, gof_num_buckets, gof_calls, gof_cdf,
              gof_p_value, gof_module >>

\* Avalanche Experiment (sac/experiment.rs).
VARIABLES
    exp_build_hasher,  \* Experiment::build_hasher
    exp_data,          \* Experiment::data: BitVec<u8, Lsb0>, as its raw bytes
    exp_pc,            \* position in run(): "constructed", "loop", "returned"
    exp_iterations,    \* run()'s argument
    exp_done,          \* run()'s loop counter
    exp_previous,      \* run()'s local `previous`
    exp_bit_changes,   \* run()'s local `bit_changes`, then its return value
    exp_trace          \* history: the data before the loop and after each flip

expVars == << exp_build_hasher, exp_data, exp_pc, exp_iterations, exp_done,
              exp_previous, exp_bit_changes, exp_trace >>

\* Strict avalanche criterion Test (sac.rs).
VARIABLES
    sac_build_hasher,              \* Test::build_hasher
    sac_provider,                  \* Test::provider: its bytes_per_input()
    sac_bit_flips,                 \* Test::bit_flips: [usize; N]
    sac_iterations_per_experiment, \* Test::iterations_per_experiment
    sac_total_experiments,         \* Test::total_experiments
    sac_max_deviance,              \* Test::max_deviance
    sac_ok_calls,                  \* history: run_single_experiment() calls that returned Ok
    sac_flip_sum,                  \* history: per bit, the flips of all experiments run
    sac_last,                      \* outcome of the last run_single_experiment()
    sac_results,                   \* value of the last results() on the current state
    sac_module                     \* module of the last report_section() on the current state

sacVars == << sac_build_hasher, sac_provider, sac_bit_flips,
              sac_iterations_per_experiment, sac_total_experiments,
              sac_max_deviance, sac_ok_calls, sac_flip_sum, sac_last,
              sac_results, sac_module >>

\* Bitwise correlation Test (correlation/bitwise.rs).
VARIABLES
    cor_build_hasher,  \* Test::build_hasher
    cor_bit_values,    \* Test::bit_values: [Vec<f64>; N]
    cor_threshold,     \* Test::threshold
    cor_hashes,        \* history: every digest computed by run(), in order
    cor_total,         \* history: the sum of the iteration counts of all run() calls
    cor_results,       \* value of the last results() on the current state
    cor_module         \* module of the last report_section() on the current state

corVars == << cor_build_hasher, cor_bit_values, cor_threshold, cor_hashes,
              cor_total, cor_results, cor_module >>

\* One constructor call (Test::new / Test::try_new / Experiment::try_new).
VARIABLES
    new_fn,      \* the constructor called
    new_args,    \* its arguments
    new_result   \* [tag |-> "pending"] before it returns, then what it returned

newVars == << new_fn, new_args, new_result >>

\* One builder (of a Test-section, a Report or a Suite) and the calls on it.
VARIABLES
    bld_kind,     \* which builder it is
    bld_builder,  \* Some(builder) while it can be called, None once consumed
    bld_calls,    \* history: every call made, as << method, argument >>
    bld_last      \* what the last call returned

bldVars == << bld_kind, bld_builder, bld_calls, bld_last >>

\* One Suite (bitbelay-suites) and the calls on it.
VARIABLES
    suite_kind,          \* which Suite it is: avalanche, chi_squared, correlation
    suite_build_hasher,  \* Suite::build_hasher
    suite_buckets,       \* Suite::buckets (chi-squared Suite only, else None)
    suite_tests,         \* Suite::tests: Vec<Test>
    suite_ok_calls,      \* history: number of run_* calls that did not return an error
    suite_last,          \* what the last run_* call returned
    suite_report         \* what the last report() on the current state returned

suiteVars == << suite_kind, suite_build_hasher, suite_buckets, suite_tests,
                suite_ok_calls, suite_last, suite_report >>

\* The correlation functions of bitbelay-statistics, applied to one pair of
\* slices.
VARIABLES
    stat_a,         \* the slice `a` handed to the functions
    stat_b,         \* the slice `b` handed to the functions
    stat_pearson,   \* what pearson::correlation(a, b) returned
    stat_spearman   \* what spearman::correlation(a, b) returned

statVars == << stat_a, stat_b, stat_pearson, stat_spearman >>

\* The speed Test (bitbelay-tests/src/performance/speed.rs).
VARIABLES
    spd_unit,       \* length in bytes of one input of Test::provider
    spd_desired,    \* Test::desired_data_size_in_bytes
    spd_threshold,  \* Test::threshold
    spd_data,       \* Test::data; each byte carries the ordinal of the
                    \* iteration that appended it
    spd_results,    \* Test::results: Vec<f64>
    spd_pc,         \* position of the thread inside run()
    spd_iterations, \* `iterations` of the run() in progress
    spd_done,       \* passes of the loop of run() completed in this call
    spd_at_call,    \* history: Test::results when run() was called
    spd_report      \* what the last report_section() returned

spdVars == << spd_unit, spd_desired, spd_threshold, spd_data, spd_results,
              spd_pc, spd_iterations, spd_done, spd_at_call, spd_report >>

vars == << gofVars, expVars, sacVars, corVars, newVars, bldVars, suiteVars,
           statVars, spdVars >>

(***************************************************************************)
(* Arithmetic helpers.                                                     *)
(***************************************************************************)
None == << >>

Some(v) == << v >>

IsSome(o) == Len(o) = 1

Abs(x) == IF x < 0 THEN -x ELSE x

RECURSIVE Pow2(_)
Pow2(n) == IF n = 0 THEN 1 ELSE 2 * Pow2(n - 1)

\* Bit i (0-based) of the unsigned integer x: (x >> i) & 1.
Bit(x, i) == (x \div Pow2(i)) % 2

RECURSIVE SumSeq(_)
SumSeq(s) == IF s = << >> THEN 0 ELSE Head(s) + SumSeq(Tail(s))

\* Exact comparison of two rationals with positive denominators.
RatLE(a, b) == a[1] * b[2] <= b[1] * a[2]

RatLT(a, b) == a[1] * b[2] < b[1] * a[2]

RatEq(a, b) == a[1] * b[2] = b[1] * a[2]

\* An f64 that is 0.0 / 0.0.
IsNaN(x) == x[2] = 0

\* The real numbers the model draws thresholds and library results from.
UnitGrid == { <<0, 1>>, <<1, 20>>, <<1, 2>>, <<1, 1>> }

Digests == 0 .. (Pow2(HashBits) - 1)

(***************************************************************************)
(* Chi-squared goodness-of-fit Test                                        *)
(*   bitbelay-tests/src/chi_squared/goodness_of_fit.rs                     *)
(*   bitbelay-statistics/src/chi_squared.rs                                *)
(***************************************************************************)
\* Test::new: `buckets: vec![0; num_buckets.get()]`, threshold stored as given.
GoF_new(num_buckets, threshold) ==
    [ buckets |-> [ i \in 1 .. num_buckets |-> 0 ], threshold |-> threshold ]

\* A single_iteration that stores 1 in the bucket instead of adding 1 to it.
GoF_single_iteration_store(buckets, hash) ==
    LET bucket == hash % Len(buckets)
    IN  [ buckets EXCEPT ![bucket + 1] = 1 ]

\* Test::single_iteration on a digest: bucket = hash % len; buckets[bucket] += 1.
GoF_single_iteration(buckets, hash) ==
    LET bucket == hash % Len(buckets)
    IN  [ buckets EXCEPT ![bucket + 1] = @ + 1 ]

RECURSIVE SumSquaredDifferences(_, _)
\* The fold of chi_squared_uniform before the division: the sum over the
\* observations of (count as isize - expected as isize)^2.
SumSquaredDifferences(observations, expected_as_isize) ==
    IF observations = << >> THEN 0
    ELSE LET difference == Head(observations) - expected_as_isize
         IN  difference * difference
               + SumSquaredDifferences(Tail(observations), expected_as_isize)

\* chi_squared_uniform: expected = sum / len as f64; None when expected < 5.0;
\* otherwise the sum of difference^2 / expected, where the difference is taken
\* between the two values cast to isize (the cast truncates expected).
chi_squared_uniform(observations) ==
    LET total == SumSeq(observations)
        len == Len(observations)
    IN  IF total < 5 * len THEN None
        ELSE Some(<< len * SumSquaredDifferences(observations, total \div len),
                     total >>)

\* UniformPearsonTest::goodness_of_fit.  `percentile` is the value the
\* statistics library's cdf returns for the statistic.  ChiSquared::new
\* rejects a non-positive number of degrees of freedom, and the code panics
\* on that error.  `percentile == NAN` is false for every f64.
goodness_of_fit(observations, percentile) ==
    LET statistic == chi_squared_uniform(observations)
        degrees_of_freedom == Len(observations) - 1
    IN  IF ~IsSome(statistic) THEN [ tag |-> "None", p |-> <<0, 1>> ]
        ELSE IF degrees_of_freedom <= 0 THEN [ tag |-> "panic", p |-> <<0, 1>> ]
        ELSE [ tag |-> "Some",
               p |-> << percentile[2] - percentile[1], percentile[2] >> ]

\* Test::p_value.
GoF_p_value(buckets, percentile) == goodness_of_fit(buckets, percentile)

\* Test::report_section: the result of the one module it pushes.
GoF_report_section(buckets, threshold, percentile) ==
    LET p_value == GoF_p_value(buckets, percentile)
    IN  IF p_value.tag = "panic" THEN "panic"
        ELSE IF p_value.tag = "Some"
             THEN IF RatLT(threshold, p_value.p) THEN "Pass" ELSE "Fail"
             ELSE "Inconclusive"

GoFInit ==
    /\ gof_num_buckets \in 1 .. MaxBuckets
    /\ gof_threshold \in UnitGrid
    /\ gof_buckets = GoF_new(gof_num_buckets, gof_threshold).buckets
    /\ gof_calls = 0
    /\ gof_cdf \in UnitGrid
    /\ gof_p_value = [ tag |-> "unqueried", p |-> <<0, 1>> ]
    /\ gof_module = "unrendered"

\* Test::single_iteration on the digest of one provided input.  The cdf value
\* of the new bucket vector is whatever the library computes for it.
GoFSingleIteration ==
    /\ gof_calls < MaxIterations
    /\ \E hash \in Digests :
           gof_buckets' = GoF_single_iteration(gof_buckets, hash)
    /\ gof_calls' = gof_calls + 1
    /\ gof_cdf' \in UnitGrid
    /\ gof_p_value' = [ tag |-> "unqueried", p |-> <<0, 1>> ]
    /\ gof_module' = "unrendered"
    /\ UNCHANGED << gof_threshold, gof_num_buckets >>
    /\ UNCHANGED << expVars, sacVars, corVars, newVars, bldVars, suiteVars, statVars, spdVars >>

GoFPValue ==
    /\ gof_p_value' = GoF_p_value(gof_buckets, gof_cdf)
    /\ UNCHANGED << gof_buckets, gof_threshold, gof_num_buckets, gof_calls,
                    gof_cdf, gof_module >>
    /\ UNCHANGED << expVars, sacVars, corVars, newVars, bldVars, suiteVars, statVars, spdVars >>

GoFReportSection ==
    /\ gof_p_value' = GoF_p_value(gof_buckets, gof_cdf)
    /\ gof_module' = GoF_report_section(gof_buckets, gof_threshold, gof_cdf)
    /\ UNCHANGED << gof_buckets, gof_threshold, gof_num_buckets, gof_calls,
                    gof_cdf >>
    /\ UNCHANGED << expVars, sacVars, corVars, newVars, bldVars, suiteVars, statVars, spdVars >>

GoFNext == GoFSingleIteration \/ GoFPValue \/ GoFReportSection

(***************************************************************************)
(* Properties of the goodness-of-fit Test.                                 *)
(***************************************************************************)
\* C1: after k single_iteration() calls the bucket counters sum to k and the
\* number of buckets is still the B the Test was constructed with.
C1_BucketConservation ==
    /\ SumSeq(gof_buckets) = gof_calls
    /\ Len(gof_buckets) = gof_num_buckets

\* C1 witness: several iterations have run and landed in two different buckets.
C1_Witness ==
    /\ gof_num_buckets = 2
    /\ gof_calls >= 5
    /\ gof_buckets[1] >= 2
    /\ gof_buckets[2] >= 2

RECURSIVE ExactSquaredDeviations(_, _, _)
\* Sum over the observations of (len * count - total)^2, which is len^2 times
\* the sum of (count - total/len)^2 with the quotient taken exactly.
ExactSquaredDeviations(observations, len, total) ==
    IF observations = << >> THEN 0
    ELSE (len * Head(observations) - total) * (len * Head(observations) - total)
           + ExactSquaredDeviations(Tail(observations), len, total)

\* C5: the uniform chi-squared statistic is 'no result' exactly when
\* expected = total / B is below 5, and otherwise equals the sum over the
\* buckets of (observed - expected)^2 / expected with expected the exact
\* quotient, also when the total is not divisible by B.
C5_UniformStatisticExact ==
    LET total == SumSeq(gof_buckets)
        len == Len(gof_buckets)
        statistic == chi_squared_uniform(gof_buckets)
    IN  /\ IsSome(statistic) <=> ~(total < 5 * len)
        /\ IsSome(statistic) =>
               RatEq(statistic[1],
                     << ExactSquaredDeviations(gof_buckets, len, total),
                        len * total >>)

\* The statistic is exact on every bucket vector whose total is divisible by B.
GoF_StatisticExactWhenDivisible ==
    LET total == SumSeq(gof_buckets)
        len == Len(gof_buckets)
        statistic == chi_squared_uniform(gof_buckets)
    IN  (IsSome(statistic) /\ total % len = 0) =>
            RatEq(statistic[1],
                  << ExactSquaredDeviations(gof_buckets, len, total),
                     len * total >>)

\* C6: the module a rendered report section carries is Inconclusive exactly
\* when the p-value is undefined, which is exactly when total / B < 5;
\* otherwise it is Pass exactly when p_value > threshold and Fail exactly when
\* p_value <= threshold.  An undefined p-value is never Pass or Fail.
C6_VerdictFollowsPValue ==
    gof_module # "unrendered" =>
        /\ gof_module \in { "Pass", "Fail", "Inconclusive" }
        /\ (gof_module = "Inconclusive") <=> (gof_p_value.tag = "None")
        /\ (gof_p_value.tag = "None") <=> (gof_calls < 5 * gof_num_buckets)
        /\ (gof_calls >= 5 * gof_num_buckets) =>
               /\ gof_p_value.tag = "Some"
               /\ (gof_module = "Pass") <=> RatLT(gof_threshold, gof_p_value.p)
               /\ (gof_module = "Fail") <=> RatLE(gof_p_value.p, gof_threshold)

\* With two or more buckets the verdict follows the p-value as C6 states.
GoF_VerdictWithTwoOrMoreBuckets ==
    gof_num_buckets >= 2 => C6_VerdictFollowsPValue

\* p_value() of the goodness-of-fit Test is idempotent and leaves the buckets
\* unchanged.
GoF_QueriesAreReadOnly ==
    [][ gof_p_value'.tag # "unqueried" =>
            /\ gof_buckets' = gof_buckets
            /\ gof_threshold' = gof_threshold
            /\ gof_p_value.tag # "unqueried" => gof_p_value' = gof_p_value ]_vars

\* C18: asking a Test to render its report section before any iteration has
\* run is an invariant violation that aborts (panics) rather than returning
\* a section.
C18_RenderBeforeRunAborts ==
    (gof_module # "unrendered" /\ gof_calls = 0) => gof_module = "panic"

(***************************************************************************)
(* Hash capability.  A BuildHasher is a deterministic function from the    *)
(* bytes written to a u64 digest; the model has a constant one (finish()   *)
(* always 42), one that returns the bytes as a little-endian integer, and  *)
(* one that mixes every input bit into several digest bits.                *)
(***************************************************************************)
Hashers == { "FortyTwo", "Plain", "Mix" }

RECURSIVE LittleEndian(_)
LittleEndian(bytes) ==
    IF bytes = << >> THEN 0 ELSE Head(bytes) + 256 * LittleEndian(Tail(bytes))

\* A hash_one whose "FortyTwo" digest depends on the low input bit.
HashOneLowBit(hasher, bytes) ==
    LET v == LittleEndian(bytes)
    IN  CASE hasher = "FortyTwo" -> 42 + (v % 2)
          [] hasher = "Plain" -> v
          [] hasher = "Mix" -> (v * 37 + (v \div 16) + 5) % 256

\* build_hasher.hash_one(bytes)
HashOne(hasher, bytes) ==
    LET v == LittleEndian(bytes)
    IN  CASE hasher = "FortyTwo" -> 42
          [] hasher = "Plain" -> v
          [] hasher = "Mix" -> (v * 37 + (v \div 16) + 5) % 256

RECURSIVE BitXor(_, _)
\* a ^ b on unsigned integers.
BitXor(a, b) ==
    IF a = 0 /\ b = 0 THEN 0
    ELSE (((a % 2) + (b % 2)) % 2) + 2 * BitXor(a \div 2, b \div 2)

\* The byte sequences a provider hands out (every input has the same length).
ProvidedInputs == { << 0 >>, << 107 >> }

(***************************************************************************)
(* Avalanche Experiment                                                    *)
(*   bitbelay-tests/src/avalanche/sac/experiment.rs                        *)
(***************************************************************************)
Zeros == [ i \in 1 .. N |-> 0 ]

\* Experiment::try_new: EmptyData for an empty slice, else the data as bits.
Experiment_try_new(data) ==
    IF data = << >> THEN [ tag |-> "EmptyData", data |-> << >> ]
    ELSE [ tag |-> "Ok", data |-> data ]

\* data.len() of the bit vector.
BitLen(data) == 8 * Len(data)

\* A flip that sets the drawn bit instead of negating it.
flip_random_bit_set(data, index) ==
    LET byte == (index \div 8) + 1
        bit == index % 8
    IN  [ data EXCEPT ![byte] = IF Bit(@, bit) = 1 THEN @ ELSE @ + Pow2(bit) ]

\* Experiment::flip_random_bit with `index` the sample drawn from
\* Uniform(0..data.len()): bit `index` (Lsb0 within its byte) is negated.
flip_random_bit(data, index) ==
    LET byte == (index \div 8) + 1
        bit == index % 8
    IN  [ data EXCEPT ![byte] =
              IF Bit(@, bit) = 1 THEN @ - Pow2(bit) ELSE @ + Pow2(bit) ]

\* Experiment::hash_data.
hash_data(build_hasher, data) == HashOne(build_hasher, data)

\* The counting loop `for i in 0..N { if (result >> i) & 1 == 1 { .. += 1 } }`.
CountBits(bit_changes, result) ==
    [ i \in 1 .. N |-> IF Bit(result, i - 1) = 1 THEN bit_changes[i] + 1
                                              ELSE bit_changes[i] ]

\* A loop body that never executes `previous = next`.
run_iteration_stale_previous(build_hasher, st, index) ==
    LET data == flip_random_bit(st.data, index)
        next == hash_data(build_hasher, data)
        result == BitXor(st.previous, next)
    IN  [ data |-> data, previous |-> st.previous,
          bit_changes |-> CountBits(st.bit_changes, result) ]

\* One pass of the loop body of Experiment::run.
run_iteration(build_hasher, st, index) ==
    LET data == flip_random_bit(st.data, index)
        next == hash_data(build_hasher, data)
        result == BitXor(st.previous, next)
    IN  [ data |-> data, previous |-> next,
          bit_changes |-> CountBits(st.bit_changes, result) ]

\* Locals that start from a zero `previous` without hashing the input.
run_enter_unhashed(build_hasher, data) ==
    [ data |-> data, previous |-> 0, bit_changes |-> Zeros ]

\* The locals of Experiment::run before its loop.
run_enter(build_hasher, data) ==
    [ data |-> data, previous |-> hash_data(build_hasher, data),
      bit_changes |-> Zeros ]

RECURSIVE run_loop(_, _, _)
run_loop(build_hasher, st, indices) ==
    IF indices = << >> THEN st
    ELSE run_loop(build_hasher, run_iteration(build_hasher, st, Head(indices)),
                  Tail(indices))

\* Experiment::run as one call: `indices` are the bit positions its
\* iterations draw, in order; the value is the returned [usize; N].
Experiment_run(build_hasher, data, indices) ==
    run_loop(build_hasher, run_enter(build_hasher, data), indices).bit_changes

ExpInit ==
    /\ exp_build_hasher \in Hashers
    /\ \E data \in ProvidedInputs :
           /\ Experiment_try_new(data).tag = "Ok"
           /\ exp_data = Experiment_try_new(data).data
    /\ exp_pc = "constructed"
    /\ exp_iterations = 0
    /\ exp_done = 0
    /\ exp_previous = 0
    /\ exp_bit_changes = Zeros
    /\ exp_trace = << >>

ExpRunEnter ==
    /\ exp_pc = "constructed"
    /\ exp_iterations' \in 1 .. MaxRunIterations
    /\ LET st == run_enter(exp_build_hasher, exp_data)
       IN  /\ exp_previous' = st.previous
           /\ exp_bit_changes' = st.bit_changes
    /\ exp_done' = 0
    /\ exp_pc' = "loop"
    /\ exp_trace' = << exp_data >>
    /\ UNCHANGED << exp_build_hasher, exp_data >>
    /\ UNCHANGED << gofVars, sacVars, corVars, newVars, bldVars, suiteVars, statVars, spdVars >>

ExpRunIteration ==
    /\ exp_pc = "loop"
    /\ exp_done < exp_iterations
    /\ \E index \in 0 .. (BitLen(exp_data) - 1) :
           LET st == run_iteration(exp_build_hasher,
                                   [ data |-> exp_data,
                                     previous |-> exp_previous,
                                     bit_changes |-> exp_bit_changes ],
                                   index)
           IN  /\ exp_data' = st.data
               /\ exp_previous' = st.previous
               /\ exp_bit_changes' = st.bit_changes
               /\ exp_trace' = Append(exp_trace, st.data)
    /\ exp_done' = exp_done + 1
    /\ UNCHANGED << exp_build_hasher, exp_pc, exp_iterations >>
    /\ UNCHANGED << gofVars, sacVars, corVars, newVars, bldVars, suiteVars, statVars, spdVars >>

ExpRunReturn ==
    /\ exp_pc = "loop"
    /\ exp_done = exp_iterations
    /\ exp_pc' = "returned"
    /\ UNCHANGED << exp_build_hasher, exp_data, exp_iterations, exp_done,
                    exp_previous, exp_bit_changes, exp_trace >>
    /\ UNCHANGED << gofVars, sacVars, corVars, newVars, bldVars, suiteVars, statVars, spdVars >>

ExpNext == ExpRunEnter \/ ExpRunIteration \/ ExpRunReturn

RECURSIVE DataTrace(_, _)
\* The data of an experiment before its loop and after each of its flips.
DataTrace(data, indices) ==
    IF indices = << >> THEN << data >>
    ELSE << data >> \o DataTrace(flip_random_bit(data, Head(indices)),
                                 Tail(indices))

\* The number of steps t of the trace at which output bit i of the digest of
\* the data differs before and after the flip.
FlipCount(build_hasher, trace, i) ==
    LET digests == [ t \in 1 .. Len(trace) |-> HashOne(build_hasher, trace[t]) ]
    IN  Cardinality({ t \in 1 .. (Len(trace) - 1) :
                        Bit(digests[t], i) # Bit(digests[t + 1], i) })

\* C3: in an Experiment run, each iteration adds 1 to the counter of output
\* bit i exactly when bit i of (prior digest XOR next digest) is 1, i.e. when
\* the digests of the data before and after the flip differ in bit i, and
\* changes no other counter; the returned count of bit i is the number of
\* iterations in which output bit i flipped.
C3_CountsAreFlips ==
    exp_pc \in { "loop", "returned" } =>
        /\ Len(exp_trace) = exp_done + 1
        /\ exp_pc = "returned" => exp_done = exp_iterations
        /\ \A i \in 0 .. (N - 1) :
               exp_bit_changes[i + 1] = FlipCount(exp_build_hasher, exp_trace, i)

\* C3 witness: a run of three iterations has returned with output bit 0
\* flipped in some but not all of them.
C3_Witness ==
    /\ exp_pc = "returned"
    /\ exp_iterations = 3
    /\ exp_bit_changes[1] \in { 1, 2 }
    /\ exp_bit_changes[2] >= 1

RECURSIVE PopCount(_)
\* The number of 1 bits of an unsigned integer.
PopCount(x) == IF x = 0 THEN 0 ELSE (x % 2) + PopCount(x \div 2)

\* data.count_ones() of the bit vector.
count_ones(data) == SumSeq([ k \in 1 .. Len(data) |-> PopCount(data[k]) ])

\* The bit indices at which two bit vectors of the same length differ.
DifferingBits(a, b) ==
    { index \in 0 .. (BitLen(a) - 1) :
        Bit(a[(index \div 8) + 1], index % 8) # Bit(b[(index \div 8) + 1], index % 8) }

\* C20: every single-bit flip of an Experiment changes exactly one bit of the
\* data, at an index inside [0, length): after each flip of any sequence of
\* flips the length is unchanged and the Hamming weight differs from the
\* previous weight by exactly 1.
C20_SingleBitFlips ==
    /\ exp_trace # << >> => exp_trace[Len(exp_trace)] = exp_data
    /\ \A t \in 1 .. (Len(exp_trace) - 1) :
           /\ Len(exp_trace[t + 1]) = Len(exp_trace[t])
           /\ \A k \in 1 .. Len(exp_trace[t + 1]) : exp_trace[t + 1][k] \in 0 .. 255
           /\ Cardinality(DifferingBits(exp_trace[t], exp_trace[t + 1])) = 1
           /\ Abs(count_ones(exp_trace[t + 1]) - count_ones(exp_trace[t])) = 1

\* C20 witness: three flips were made, one raising the Hamming weight and a
\* later one lowering it.
C20_Witness ==
    /\ Len(exp_trace) = 4
    /\ count_ones(exp_trace[2]) > count_ones(exp_trace[1])
    /\ count_ones(exp_trace[4]) < count_ones(exp_trace[3])

RECURSIVE RedigestCounts(_, _, _)
\* The per-bit counts of the algorithm that digests the current data as
\* `prior` at the start of every iteration, then the flipped data as `next`,
\* over the data values of `trace`.
RedigestCounts(build_hasher, trace, bit_changes) ==
    IF Len(trace) < 2 THEN bit_changes
    ELSE LET prior == hash_data(build_hasher, trace[1])
             next == hash_data(build_hasher, trace[2])
         IN  RedigestCounts(build_hasher, Tail(trace),
                            CountBits(bit_changes, BitXor(prior, next)))

\* C29: run() hashes the input once before its loop and reuses each
\* iteration's `next` as the following `prior`; `previous` is then always
\* the digest of the current data, and the counts equal those of the
\* algorithm that re-digests the data as `prior` in every iteration.
C29_ReusedDigestEqualsRedigest ==
    exp_pc \in { "loop", "returned" } =>
        /\ exp_previous = hash_data(exp_build_hasher, exp_data)
        /\ exp_data = exp_trace[Len(exp_trace)]
        /\ exp_bit_changes = RedigestCounts(exp_build_hasher, exp_trace, Zeros)

\* C29 witness: a returned run of three iterations that came back to an
\* earlier data value, with a non-constant hasher and a counted flip.
C29_Witness ==
    /\ exp_pc = "returned"
    /\ exp_done = 3
    /\ exp_trace[3] = exp_trace[1]
    /\ exp_trace[4] # exp_trace[2]
    /\ exp_previous # hash_data(exp_build_hasher, exp_trace[1])
    /\ \E i \in 1 .. N : exp_bit_changes[i] >= 2

(***************************************************************************)
(* Strict avalanche criterion Test                                         *)
(*   bitbelay-tests/src/avalanche/sac.rs                                   *)
(***************************************************************************)
\* What provider.provide(1).pop() can be for a provider whose inputs are
\* bytes_per_input bytes long.
Provide(bytes_per_input) ==
    IF bytes_per_input = 0 THEN { << >> } ELSE ProvidedInputs

\* The sequences of `len` bit positions an Experiment can draw on `bits` bits.
FlipSequences(len, bits) == [ 1 .. len -> 0 .. (bits - 1) ]

\* The bit positions the experiment on `data` draws: none when no Experiment
\* can be created from the data.
Draws(iterations_per_experiment, data) ==
    IF Experiment_try_new(data).tag = "Ok"
    THEN FlipSequences(iterations_per_experiment, BitLen(data))
    ELSE { << >> }

\* The configurations the model constructs avalanche Tests with.
IterationsPerExperiment == { 1, 2 }

MaxDeviances == { <<0, 1>>, <<1, 100>>, <<1, 4>>, <<1, 1>> }

\* `(0.0..=1.0).contains(&x)`: false for NaN, which compares with nothing.
RangeInclusiveContains(x) ==
    ~IsNaN(x) /\ RatLE(<<0, 1>>, x) /\ RatLE(x, <<1, 1>>)

\* A try_new that accepts the open interval only.
SAC_try_new_exclusive(iterations_per_experiment, max_deviance) ==
    IF ~(~IsNaN(max_deviance) /\ RatLT(<<0, 1>>, max_deviance)
           /\ RatLT(max_deviance, <<1, 1>>))
    THEN [ tag |-> "InvalidMaxDeviance", value |-> max_deviance ]
    ELSE [ tag |-> "Ok", bit_flips |-> Zeros,
           iterations_per_experiment |-> iterations_per_experiment,
           total_experiments |-> 0, max_deviance |-> max_deviance ]

\* Test::try_new: Err(InvalidMaxDeviance(max_deviance)) unless
\* (0.0..=1.0).contains(&max_deviance).
SAC_try_new(iterations_per_experiment, max_deviance) ==
    IF ~RangeInclusiveContains(max_deviance)
    THEN [ tag |-> "InvalidMaxDeviance", value |-> max_deviance ]
    ELSE [ tag |-> "Ok", bit_flips |-> Zeros,
           iterations_per_experiment |-> iterations_per_experiment,
           total_experiments |-> 0, max_deviance |-> max_deviance ]

\* An accumulation that overwrites the counters with the experiment's counts.
AccumulateOverwrite(bit_flips, results) ==
    [ i \in 1 .. N |-> results[i] ]

\* `for (i, value) in results.iter().enumerate() { self.bit_flips[i] += value }`
Accumulate(bit_flips, results) ==
    [ i \in 1 .. N |-> bit_flips[i] + results[i] ]

\* A run_single_experiment that counts the experiment before creating it.
SAC_run_single_experiment_count_first(build_hasher, bit_flips, total_experiments, data, indices) ==
    IF Experiment_try_new(data).tag # "Ok"
    THEN [ tag |-> "Err", bit_flips |-> bit_flips,
           total_experiments |-> total_experiments + 1 ]
    ELSE [ tag |-> "Ok",
           bit_flips |-> Accumulate(bit_flips,
                             Experiment_run(build_hasher,
                                            Experiment_try_new(data).data,
                                            indices)),
           total_experiments |-> total_experiments + 1 ]

\* Test::run_single_experiment on the provided `data`, with `indices` the bit
\* positions the experiment draws: the new bit_flips and total_experiments.
SAC_run_single_experiment(build_hasher, bit_flips, total_experiments, data, indices) ==
    IF Experiment_try_new(data).tag # "Ok"
    THEN [ tag |-> "Err", bit_flips |-> bit_flips,
           total_experiments |-> total_experiments ]
    ELSE [ tag |-> "Ok",
           bit_flips |-> Accumulate(bit_flips,
                             Experiment_run(build_hasher,
                                            Experiment_try_new(data).data,
                                            indices)),
           total_experiments |-> total_experiments + 1 ]

\* The order of OrderedFloat: NaN is equal to itself and above every number.
OrderedLE(a, b) ==
    IF IsNaN(b) THEN TRUE ELSE IF IsNaN(a) THEN FALSE ELSE RatLE(a, b)

\* An `iterations` that counts experiments, not their iterations.
SAC_iterations_experiments(total_experiments, iterations_per_experiment) ==
    total_experiments

\* `iterations` of Test::results.
SAC_iterations(total_experiments, iterations_per_experiment) ==
    total_experiments * iterations_per_experiment

\* `bits` of Test::results: per position (i, |flips / iterations - 0.5|).
SAC_bits(bit_flips, iterations) ==
    [ i \in 1 .. N |->
        << i - 1, << Abs(2 * bit_flips[i] - iterations), 2 * iterations >> >> ]

RECURSIVE MinByKey(_, _, _)
\* min_by_key in place of max_by_key: the first least element.
MinByKey(bits, k, best) ==
    IF k > Len(bits) THEN best
    ELSE MinByKey(bits, k + 1,
                  IF OrderedLE(best[2], bits[k][2]) THEN best ELSE bits[k])

RECURSIVE MaxByKey(_, _, _)
\* Iterator::max_by_key from element k on, `best` being the greatest so far:
\* of several greatest elements the last one is returned.
MaxByKey(bits, k, best) ==
    IF k > Len(bits) THEN best
    ELSE MaxByKey(bits, k + 1,
                  IF OrderedLE(best[2], bits[k][2]) THEN bits[k] ELSE best)

\* Test::results.
SAC_results(bit_flips, total_experiments, iterations_per_experiment, max_deviance) ==
    LET iterations == SAC_iterations(total_experiments, iterations_per_experiment)
        bits == SAC_bits(bit_flips, iterations)
        max == MaxByKey(bits, 2, bits[1])
    IN  [ succeeded |-> OrderedLE(max[2], max_deviance),
          max_bias |-> max,
          bit_bias_offsets |-> bits ]

\* Test::report_section: the result of the one module it pushes.
SAC_report_section(results) ==
    IF results.succeeded THEN "Pass" ELSE "Fail"

SacInit ==
    /\ sac_build_hasher \in Hashers
    /\ sac_provider \in { 0, 1 }
    /\ sac_iterations_per_experiment \in IterationsPerExperiment
    /\ sac_max_deviance \in MaxDeviances
    /\ LET test == SAC_try_new(sac_iterations_per_experiment, sac_max_deviance)
       IN  /\ test.tag = "Ok"
           /\ sac_bit_flips = test.bit_flips
           /\ sac_total_experiments = test.total_experiments
    /\ sac_ok_calls = 0
    /\ sac_flip_sum = Zeros
    /\ sac_last = "new"
    /\ sac_results = None
    /\ sac_module = "unrendered"

SacRunSingleExperiment ==
    /\ sac_ok_calls < MaxExperiments
    /\ \E data \in Provide(sac_provider) :
       \E indices \in Draws(sac_iterations_per_experiment, data) :
       \E r \in { SAC_run_single_experiment(sac_build_hasher, sac_bit_flips,
                                              sac_total_experiments, data, indices) } :
       \E trace \in { DataTrace(data, indices) } :
               /\ sac_bit_flips' = r.bit_flips
               /\ sac_total_experiments' = r.total_experiments
               /\ sac_last' = r.tag
               /\ sac_ok_calls' = IF r.tag = "Ok" THEN sac_ok_calls + 1
                                                  ELSE sac_ok_calls
               /\ sac_flip_sum' =
                      IF r.tag = "Ok"
                      THEN [ i \in 1 .. N |->
                               sac_flip_sum[i]
                                 + FlipCount(sac_build_hasher, trace, i - 1) ]
                      ELSE sac_flip_sum
    /\ sac_results' = None
    /\ sac_module' = "unrendered"
    /\ UNCHANGED << sac_build_hasher, sac_provider,
                    sac_iterations_per_experiment, sac_max_deviance >>
    /\ UNCHANGED << gofVars, expVars, corVars, newVars, bldVars, suiteVars, statVars, spdVars >>

\* A results() that takes the counters out of the Test as it reads them.
SacResultsDraining ==
    /\ sac_results' = Some(SAC_results(sac_bit_flips, sac_total_experiments,
                                       sac_iterations_per_experiment,
                                       sac_max_deviance))
    /\ sac_bit_flips' = Zeros
    /\ sac_last' = sac_last
    /\ UNCHANGED << sac_build_hasher, sac_provider,
                    sac_iterations_per_experiment, sac_total_experiments,
                    sac_max_deviance, sac_ok_calls, sac_flip_sum, sac_module >>
    /\ UNCHANGED << gofVars, expVars, corVars, newVars, bldVars, suiteVars, statVars, spdVars >>

SacResults ==
    /\ sac_results' = Some(SAC_results(sac_bit_flips, sac_total_experiments,
                                       sac_iterations_per_experiment,
                                       sac_max_deviance))
    /\ sac_last' = sac_last
    /\ UNCHANGED << sac_build_hasher, sac_provider, sac_bit_flips,
                    sac_iterations_per_experiment, sac_total_experiments,
                    sac_max_deviance, sac_ok_calls, sac_flip_sum, sac_module >>
    /\ UNCHANGED << gofVars, expVars, corVars, newVars, bldVars, suiteVars, statVars, spdVars >>

SacReportSection ==
    /\ LET results == SAC_results(sac_bit_flips, sac_total_experiments,
                                  sac_iterations_per_experiment, sac_max_deviance)
       IN  /\ sac_results' = Some(results)
           /\ sac_module' = SAC_report_section(results)
    /\ sac_last' = sac_last
    /\ UNCHANGED << sac_build_hasher, sac_provider, sac_bit_flips,
                    sac_iterations_per_experiment, sac_total_experiments,
                    sac_max_deviance, sac_ok_calls, sac_flip_sum >>
    /\ UNCHANGED << gofVars, expVars, corVars, newVars, bldVars, suiteVars, statVars, spdVars >>

SacNext == SacRunSingleExperiment \/ SacResults \/ SacReportSection

(***************************************************************************)
(* Properties of the avalanche Test.                                       *)
(***************************************************************************)
\* C2: after e successful run_single_experiment() calls, total_experiments
\* is e, the iteration count results() divides by is e times
\* iterations_per_experiment, and bit_flips[i] is the sum over those
\* experiments of the number of iterations that flipped output bit i.
C2_ExperimentsAccumulate ==
    /\ sac_total_experiments = sac_ok_calls
    /\ SAC_iterations(sac_total_experiments, sac_iterations_per_experiment)
           = sac_ok_calls * sac_iterations_per_experiment
    /\ \A i \in 1 .. N : sac_bit_flips[i] = sac_flip_sum[i]

\* C2 witness: two experiments of two iterations each have run, and the two
\* bit positions have different, non-zero counters.
C2_Witness ==
    /\ sac_ok_calls = 2
    /\ sac_iterations_per_experiment = 2
    /\ sac_bit_flips[1] >= 3
    /\ sac_bit_flips[2] \in 1 .. 2

\* C4: results() reports for every bit position the bias
\* |counter / (total_experiments * iterations_per_experiment) - 0.5|; max_bias
\* is the (index, bias) of a position whose bias is greatest; succeeded holds
\* exactly when that greatest bias is <= max_deviance; the module of the
\* report section is Pass exactly when succeeded holds.
C4_ResultsReduceBias ==
    IsSome(sac_results) =>
        LET r == sac_results[1]
            total == sac_total_experiments * sac_iterations_per_experiment
        IN  /\ \A i \in 1 .. N :
                   /\ r.bit_bias_offsets[i][1] = i - 1
                   /\ IsNaN(r.bit_bias_offsets[i][2]) <=> (total = 0)
                   /\ RatEq(r.bit_bias_offsets[i][2],
                            << Abs(2 * sac_bit_flips[i] - total), 2 * total >>)
            /\ \E i \in 1 .. N : r.max_bias = r.bit_bias_offsets[i]
            /\ \A j \in 1 .. N :
                   OrderedLE(r.bit_bias_offsets[j][2], r.max_bias[2])
            /\ r.succeeded <=>
                   (total > 0 /\ \A j \in 1 .. N :
                                    RatLE(r.bit_bias_offsets[j][2], sac_max_deviance))
            /\ sac_module # "unrendered" =>
                   ((sac_module = "Pass") <=> r.succeeded)
                     /\ ((sac_module = "Fail") <=> ~r.succeeded)

\* C4 witness: a section was rendered as Pass after experiments whose two bit
\* positions have different biases, the greatest at position 0.
C4_Witness ==
    /\ IsSome(sac_results)
    /\ sac_module = "Pass"
    /\ sac_total_experiments >= 1
    /\ sac_results[1].max_bias[1] = 0
    /\ RatLT(sac_results[1].bit_bias_offsets[2][2],
             sac_results[1].bit_bias_offsets[1][2])

\* C19: against the hasher whose digest is 42 for every input, after any
\* number e >= 1 of experiments every bit_flips counter is 0, the bias of
\* every bit position is exactly 0.5, and with max-deviance 0.01 the verdict
\* is Fail.
C19_ConstantHasherFails ==
    (sac_build_hasher = "FortyTwo" /\ sac_total_experiments >= 1) =>
        /\ \A i \in 1 .. N : sac_bit_flips[i] = 0
        /\ IsSome(sac_results) =>
               /\ \A i \in 1 .. N :
                      /\ ~IsNaN(sac_results[1].bit_bias_offsets[i][2])
                      /\ RatEq(sac_results[1].bit_bias_offsets[i][2], <<1, 2>>)
               /\ RatEq(sac_max_deviance, <<1, 100>>) =>
                      ~sac_results[1].succeeded
        /\ (sac_module # "unrendered" /\ RatEq(sac_max_deviance, <<1, 100>>)) =>
               sac_module = "Fail"

\* C19 witness: two experiments ran against the constant hasher with
\* max-deviance 0.01 and the section was rendered as Fail.
C19_Witness ==
    /\ sac_build_hasher = "FortyTwo"
    /\ sac_total_experiments = 2
    /\ sac_max_deviance = <<1, 100>>
    /\ IsSome(sac_results)
    /\ sac_module = "Fail"

\* C17: an Experiment cannot be created from empty data (try_new returns
\* EmptyData); a run_single_experiment() that draws an empty sample returns
\* that error and leaves bit_flips and total_experiments exactly as they were
\* before the call.
C17_EmptySampleChangesNothing ==
    [][ (sac_results' = None /\ sac_module' = "unrendered") =>
            /\ (sac_last' = "Err") <=> (Provide(sac_provider) = { << >> })
            /\ (sac_last' = "Err") =>
                   /\ Experiment_try_new(<< >>).tag = "EmptyData"
                   /\ sac_bit_flips' = sac_bit_flips
                   /\ sac_total_experiments' = sac_total_experiments ]_vars

\* C17 witness: a run_single_experiment() call has returned the error.
C17_Witness ==
    /\ sac_last = "Err"
    /\ sac_provider = 0
    /\ sac_total_experiments = 0
    /\ sac_module = "Fail"

CountersInRange ==
    /\ \A i \in 1 .. N :
           /\ 0 <= sac_bit_flips[i]
           /\ sac_bit_flips[i]
                  <= sac_total_experiments * sac_iterations_per_experiment
    /\ (IsSome(sac_results) /\ sac_total_experiments >= 1) =>
           /\ \A i \in 1 .. N :
                  LET bias == sac_results[1].bit_bias_offsets[i][2]
                  IN  /\ ~IsNaN(bias)
                      /\ RatLE(<<0, 1>>, bias)
                      /\ RatLE(bias, <<1, 2>>)
           /\ ~IsNaN(sac_results[1].max_bias[2])
           /\ RatLE(<<0, 1>>, sac_results[1].max_bias[2])
           /\ RatLE(sac_results[1].max_bias[2], <<1, 2>>)

\* C30: in every reachable state 0 <= bit_flips[i] <= total_experiments *
\* iterations_per_experiment, no step decreases a counter, and once an
\* experiment has run every reported bias lies in [0, 0.5].
C30_CountersBoundedAndMonotone ==
    [][ /\ CountersInRange
        /\ CountersInRange'
        /\ \A i \in 1 .. N : sac_bit_flips'[i] >= sac_bit_flips[i]
        /\ sac_total_experiments' >= sac_total_experiments ]_vars

\* C30 witness: after two experiments of two iterations a counter reached
\* its upper bound 4 while another stayed below it, and the reported maximum
\* bias is 0.5.
C30_Witness ==
    /\ sac_total_experiments = 2
    /\ sac_iterations_per_experiment = 2
    /\ \E i, j \in 1 .. N : sac_bit_flips[i] = 4 /\ sac_bit_flips[j] < 4
    /\ IsSome(sac_results)
    /\ RatEq(sac_results[1].max_bias[2], <<1, 2>>)

(***************************************************************************)
(* Pearson correlation                                                     *)
(*   bitbelay-statistics/src/correlation/pearson.rs                        *)
(* A defined coefficient num / sqrt(radicand) is the pair                  *)
(* <<num, radicand>>, radicand > 0.                                        *)
(***************************************************************************)
RECURSIVE SumProducts(_, _)
\* a.iter().zip(b.iter()).map(|(a, b)| a * b).sum()
SumProducts(a, b) ==
    IF a = << >> \/ b = << >> THEN 0
    ELSE Head(a) * Head(b) + SumProducts(Tail(a), Tail(b))

\* A correlation without the `denom == 0.0` early return.
pearson_correlation_unguarded(a, b) ==
    IF Len(a) # Len(b) \/ a = << >> THEN None
    ELSE LET sum_a == SumSeq(a)
             sum_b == SumSeq(b)
             sum_a_squared == SumProducts(a, a)
             sum_b_squared == SumProducts(b, b)
             sum_a_times_b == SumProducts(a, b)
             n == Len(a)
             num == n * sum_a_times_b - sum_a * sum_b
             radicand == (n * sum_a_squared - sum_a * sum_a)
                           * (n * sum_b_squared - sum_b * sum_b)
         IN  Some(<< num, radicand >>)

\* pearson::correlation
pearson_correlation(a, b) ==
    IF Len(a) # Len(b) \/ a = << >> THEN None
    ELSE LET sum_a == SumSeq(a)
             sum_b == SumSeq(b)
             sum_a_squared == SumProducts(a, a)
             sum_b_squared == SumProducts(b, b)
             sum_a_times_b == SumProducts(a, b)
             n == Len(a)
             num == n * sum_a_times_b - sum_a * sum_b
             radicand == (n * sum_a_squared - sum_a * sum_a)
                           * (n * sum_b_squared - sum_b * sum_b)
         IN  IF radicand = 0 THEN None ELSE Some(<< num, radicand >>)

\* |num / sqrt(radicand)| >= threshold, for a threshold >= 0.
AbsAtLeast(corr, threshold) ==
    corr[1] * corr[1] * threshold[2] * threshold[2]
        >= threshold[1] * threshold[1] * corr[2]

(***************************************************************************)
(* Bitwise correlation Test                                                *)
(*   bitbelay-tests/src/correlation/bitwise.rs                             *)
(***************************************************************************)
\* The byte sequences the providers handed to run() give out.
BatchInputs == { << 0 >>, << 3 >>, << 5 >>, << 6 >> }

CorThresholds == { <<1, 20>>, <<1, 2>>, <<1, 1>> }

Positions == (0 .. (N - 1)) \X (0 .. (N - 1))

\* Test::new
Bitwise_new(threshold) ==
    [ bit_values |-> [ i \in 1 .. N |-> << >> ], threshold |-> threshold ]

\* compute_hashes: one digest per provided input, in order.
compute_hashes(build_hasher, inputs) ==
    [ t \in 1 .. Len(inputs) |-> HashOne(build_hasher, inputs[t]) ]

\* extract_bit_values_from_hashes: vector i holds ((hash >> i) & 1) as f64
\* of every hash, in order.
extract_bit_values_from_hashes(hashes) ==
    [ i \in 1 .. N |-> [ t \in 1 .. Len(hashes) |-> Bit(hashes[t], i - 1) ] ]

\* A run that replaces each vector by the new values.
Bitwise_run_replace(bit_values, hashes) ==
    extract_bit_values_from_hashes(hashes)

\* Test::run on the digests of its batch: every vector is extended.
Bitwise_run(bit_values, hashes) ==
    LET newly_computed_bit_values == extract_bit_values_from_hashes(hashes)
    IN  [ i \in 1 .. N |-> bit_values[i] \o newly_computed_bit_values[i] ]

\* A results() that computes each unordered pair once (i <= j only).
Bitwise_results_upper(bit_values) ==
    IF bit_values[1] = << >> THEN None
    ELSE Some([ pos \in { q \in Positions : q[1] <= q[2] } |->
                  pearson_correlation(bit_values[pos[1] + 1],
                                      bit_values[pos[2] + 1]) ])

\* Test::results
Bitwise_results(bit_values) ==
    IF bit_values[1] = << >> THEN None
    ELSE Some([ pos \in Positions |->
                  pearson_correlation(bit_values[pos[1] + 1],
                                      bit_values[pos[2] + 1]) ])

\* A filter that keeps every entry, the diagonal included.
NonDiagonalKeepAll(results) == DOMAIN results

\* `.filter(|((i, j), _)| i != j)` of Test::report_section
NonDiagonal(results) == { pos \in DOMAIN results : pos[1] # pos[2] }

\* Test::report_section: the result of the one module it pushes, or "panic".
Bitwise_report_section(bit_values, threshold) ==
    IF bit_values[1] = << >> THEN "panic"
    ELSE LET results == Bitwise_results(bit_values)[1]
             correlations == NonDiagonal(results)
         IN  IF \E pos \in correlations : ~IsSome(results[pos]) THEN "panic"
             ELSE IF \E pos \in correlations :
                         AbsAtLeast(results[pos][1], threshold)
                  THEN "Fail"
                  ELSE "Pass"

CorInit ==
    /\ cor_build_hasher \in Hashers
    /\ cor_threshold \in CorThresholds
    /\ cor_bit_values = Bitwise_new(cor_threshold).bit_values
    /\ cor_hashes = << >>
    /\ cor_total = 0
    /\ cor_results = << "unqueried" >>
    /\ cor_module = "unrendered"

CorRun ==
    /\ \E iterations \in 1 .. MaxBatch :
           /\ cor_total + iterations <= MaxSamples
           /\ \E inputs \in [ 1 .. iterations -> BatchInputs ] :
              \E hashes \in { compute_hashes(cor_build_hasher, inputs) } :
                  /\ cor_bit_values' = Bitwise_run(cor_bit_values, hashes)
                  /\ cor_hashes' = cor_hashes \o hashes
           /\ cor_total' = cor_total + iterations
    /\ cor_results' = << "unqueried" >>
    /\ cor_module' = "unrendered"
    /\ UNCHANGED << cor_build_hasher, cor_threshold >>
    /\ UNCHANGED << gofVars, expVars, sacVars, newVars, bldVars, suiteVars, statVars, spdVars >>

CorResults ==
    /\ cor_results' = << "returned", Bitwise_results(cor_bit_values) >>
    /\ UNCHANGED << cor_build_hasher, cor_bit_values, cor_threshold,
                    cor_hashes, cor_total, cor_module >>
    /\ UNCHANGED << gofVars, expVars, sacVars, newVars, bldVars, suiteVars, statVars, spdVars >>

CorReportSection ==
    /\ cor_module' = Bitwise_report_section(cor_bit_values, cor_threshold)
    /\ UNCHANGED << cor_build_hasher, cor_bit_values, cor_threshold,
                    cor_hashes, cor_total, cor_results >>
    /\ UNCHANGED << gofVars, expVars, sacVars, newVars, bldVars, suiteVars, statVars, spdVars >>

CorNext == CorRun \/ CorResults \/ CorReportSection

(***************************************************************************)
(* Properties of the bitwise correlation Test.                             *)
(***************************************************************************)
\* The number of digests computed so far whose bit i is 1.
Ones(i) ==
    Cardinality({ t \in 1 .. Len(cor_hashes) : Bit(cor_hashes[t], i) = 1 })

\* The number of digests computed so far whose bits i and j are both 1.
BothOnes(i, j) ==
    Cardinality({ t \in 1 .. Len(cor_hashes) :
                    Bit(cor_hashes[t], i) = 1 /\ Bit(cor_hashes[t], j) = 1 })

\* Bit i took both values among the digests (its sample has variance).
Varies(i) == 0 < Ones(i) /\ Ones(i) < Len(cor_hashes)

\* The Pearson coefficient of bits i and j over the digests, from its
\* definition on 0/1 samples: covariance n*n11 - n1i*n1j over the root of
\* the product of the variances n*n1 - n1^2.
PearsonOfBits(i, j) ==
    LET n == Len(cor_hashes)
    IN  IF Varies(i) /\ Varies(j)
        THEN Some(<< n * BothOnes(i, j) - Ones(i) * Ones(j),
                     (n * Ones(i) - Ones(i) * Ones(i))
                       * (n * Ones(j) - Ones(j) * Ones(j)) >>)
        ELSE None

\* C7: after run() calls with iteration counts n1..nk every per-bit vector
\* has length n1 + ... + nk, and vector i is the sequence of (digest >> i) & 1
\* over all digests of all calls in order.
C7_SamplesConcatenate ==
    /\ Len(cor_hashes) = cor_total
    /\ \A i \in 1 .. N :
           /\ Len(cor_bit_values[i]) = cor_total
           /\ \A t \in 1 .. cor_total :
                  cor_bit_values[i][t] = (cor_hashes[t] \div Pow2(i - 1)) % 2

\* C7 witness: several run() calls accumulated four samples from differing
\* digests, and the vectors of bits 0 and 1 differ.
C7_Witness ==
    /\ cor_total = 4
    /\ cor_hashes[1] # cor_hashes[3]
    /\ cor_bit_values[1] # cor_bit_values[2]
    /\ Varies(0)

\* C8: results() returns nothing exactly when no samples were accumulated;
\* otherwise a map with exactly one entry per ordered pair (i, j),
\* 0 <= i, j < N, the Pearson correlation of sample vectors i and j.
C8_ResultsIsFullMatrix ==
    cor_results[1] = "returned" =>
        /\ ~IsSome(cor_results[2]) <=> (cor_total = 0)
        /\ IsSome(cor_results[2]) =>
               /\ DOMAIN cor_results[2][1] = Positions
               /\ Cardinality(DOMAIN cor_results[2][1]) = N * N
               /\ \A pos \in Positions :
                      cor_results[2][1][pos] = PearsonOfBits(pos[1], pos[2])

\* C8 witness: a matrix was returned whose entry (1, 0) is defined and
\* negative.
C8_Witness ==
    /\ cor_results[1] = "returned"
    /\ IsSome(cor_results[2])
    /\ IsSome(cor_results[2][1][<<1, 0>>])
    /\ cor_results[2][1][<<1, 0>>][1][1] < 0

\* Every off-diagonal correlation of the accumulated samples is defined.
OffDiagonalDefined ==
    /\ cor_total > 0
    /\ \A pos \in Positions :
           pos[1] # pos[2] => IsSome(PearsonOfBits(pos[1], pos[2]))

\* Some off-diagonal pair has |correlation| >= threshold.
OffDiagonalReachesThreshold ==
    \E pos \in Positions :
        /\ pos[1] # pos[2]
        /\ AbsAtLeast(PearsonOfBits(pos[1], pos[2])[1], cor_threshold)

\* C9: when every off-diagonal correlation is defined, the module of the
\* report section is Fail exactly when some off-diagonal pair (i # j) has
\* |correlation| >= threshold, and Pass otherwise; the diagonal (always 1.0,
\* hence >= every threshold in [0, 1]) does not influence it.
C9_VerdictFromOffDiagonal ==
    (cor_module # "unrendered" /\ OffDiagonalDefined) =>
        /\ cor_module \in { "Pass", "Fail" }
        /\ (cor_module = "Fail") <=> OffDiagonalReachesThreshold

\* C9 witness: a section was rendered as Pass for a threshold below 1, while
\* the diagonal entries are defined (and equal to 1.0).
C9_Witness ==
    /\ cor_module = "Pass"
    /\ RatLT(cor_threshold, <<1, 1>>)
    /\ \A i \in 0 .. (N - 1) : IsSome(PearsonOfBits(i, i))

\* C10: when some per-bit sample vector has zero variance, the rendered
\* module is Inconclusive: it is not Pass, not Fail and the call does not
\* abort.
C10_ZeroVarianceIsInconclusive ==
    (cor_module # "unrendered" /\ cor_total > 0
       /\ \E i \in 0 .. (N - 1) : ~Varies(i)) =>
        cor_module = "Inconclusive"

\* With a zero-variance vector report_section() never yields Pass or Fail.
Cor_ZeroVarianceNeverPassOrFail ==
    (cor_module # "unrendered" /\ cor_total > 0
       /\ \E i \in 0 .. (N - 1) : ~Varies(i)) =>
        cor_module \notin { "Pass", "Fail" }

\* results() of the bitwise correlation Test is idempotent and leaves the
\* sample vectors unchanged.
Cor_QueriesAreReadOnly ==
    [][ cor_results'[1] = "returned" =>
            /\ cor_bit_values' = cor_bit_values
            /\ cor_threshold' = cor_threshold
            /\ cor_results[1] = "returned" => cor_results' = cor_results ]_vars

\* The coefficient num / sqrt(radicand) is exactly 1.0.
IsExactlyOne(corr) == corr[1] > 0 /\ corr[1] * corr[1] = corr[2]

\* C27: in every populated correlation matrix the diagonal entry (i, i) is
\* exactly 1.0 when bit i took both values among the digests, and is no
\* result exactly when sample vector i has zero variance.
C27_DiagonalIsOneOrNone ==
    (cor_results[1] = "returned" /\ IsSome(cor_results[2])) =>
        \A i \in 0 .. N - 1 :
            LET entry == cor_results[2][1][<< i, i >>]
            IN  /\ ~IsSome(entry) <=> ~Varies(i)
                /\ IsSome(entry) => IsExactlyOne(entry[1])

\* C27 witness: a populated matrix whose entry (0, 0) is 1.0 and whose entry
\* (1, 1) is no result, bit 1 being the same in all of three digests.
C27_Witness ==
    /\ cor_results[1] = "returned"
    /\ IsSome(cor_results[2])
    /\ cor_total = 3
    /\ IsSome(cor_results[2][1][<< 0, 0 >>])
    /\ IsExactlyOne(cor_results[2][1][<< 0, 0 >>][1])
    /\ ~IsSome(cor_results[2][1][<< 1, 1 >>])
    /\ ~Varies(1)

\* The bitwise correlation Test does abort when asked to render a section
\* before any sample was accumulated.
Cor_RenderBeforeRunAborts ==
    (cor_module # "unrendered" /\ cor_total = 0) => cor_module = "panic"

(***************************************************************************)
(* Construction of the Tests and of the Experiment, each as one call.      *)
(***************************************************************************)
\* The f64 values constructors are called with: NaN, negatives, the closed
\* unit interval with both ends, and values above 1.
ConfiguredReals ==
    { <<0, 0>>, <<-1, 4>>, <<0, 1>>, <<1, 100>>, <<1, 20>>, <<1, 2>>,
      <<3, 4>>, <<1, 1>>, <<5, 4>>, <<2, 1>> }

\* The slices Experiment::try_new is called with.
ExperimentData == { << >>, << 0 >>, << 107 >>, << 0, 107 >> }

NewArguments(fn) ==
    CASE fn = "sac::Test::try_new" ->
             { [ iterations_per_experiment |-> n, max_deviance |-> d ] :
                 n \in IterationsPerExperiment, d \in ConfiguredReals }
      [] fn = "goodness_of_fit::Test::new" ->
             { [ num_buckets |-> b, threshold |-> t ] :
                 b \in 1 .. MaxBuckets, t \in ConfiguredReals }
      [] fn = "bitwise::Test::new" ->
             { [ threshold |-> t ] : t \in ConfiguredReals }
      [] fn = "Experiment::try_new" ->
             { [ data |-> d ] : d \in ExperimentData }

NewInit ==
    /\ new_fn \in { "sac::Test::try_new", "goodness_of_fit::Test::new",
                    "bitwise::Test::new", "Experiment::try_new" }
    /\ new_args \in NewArguments(new_fn)
    /\ new_result = [ tag |-> "pending" ]

\* sac::Test::try_new returns a Result.
NewSacTest ==
    /\ new_fn = "sac::Test::try_new"
    /\ new_result.tag = "pending"
    /\ new_result' = SAC_try_new(new_args.iterations_per_experiment,
                                 new_args.max_deviance)
    /\ UNCHANGED << new_fn, new_args >>
    /\ UNCHANGED << gofVars, expVars, sacVars, corVars, bldVars, suiteVars, statVars, spdVars >>

\* goodness_of_fit::Test::new returns Self.
NewGoFTest ==
    /\ new_fn = "goodness_of_fit::Test::new"
    /\ new_result.tag = "pending"
    /\ new_result' = [ tag |-> "Test",
                       test |-> GoF_new(new_args.num_buckets, new_args.threshold) ]
    /\ UNCHANGED << new_fn, new_args >>
    /\ UNCHANGED << gofVars, expVars, sacVars, corVars, bldVars, suiteVars, statVars, spdVars >>

\* bitwise::Test::new returns Self.
NewBitwiseTest ==
    /\ new_fn = "bitwise::Test::new"
    /\ new_result.tag = "pending"
    /\ new_result' = [ tag |-> "Test", test |-> Bitwise_new(new_args.threshold) ]
    /\ UNCHANGED << new_fn, new_args >>
    /\ UNCHANGED << gofVars, expVars, sacVars, corVars, bldVars, suiteVars, statVars, spdVars >>

\* Experiment::try_new returns a Result.
NewExperiment ==
    /\ new_fn = "Experiment::try_new"
    /\ new_result.tag = "pending"
    /\ new_result' = Experiment_try_new(new_args.data)
    /\ UNCHANGED << new_fn, new_args >>
    /\ UNCHANGED << gofVars, expVars, sacVars, corVars, bldVars, suiteVars, statVars, spdVars >>

NewNext == NewSacTest \/ NewGoFTest \/ NewBitwiseTest \/ NewExperiment

(***************************************************************************)
(* Properties of construction.                                             *)
(***************************************************************************)
\* 0 <= x <= 1 for a real number x = num / den (not NaN).
InUnitInterval(x) == x[2] > 0 /\ 0 <= x[1] /\ x[1] <= x[2]

\* C15: constructing an avalanche Test with a max-deviance outside [0, 1]
\* returns InvalidMaxDeviance carrying the value and produces no Test; every
\* max-deviance inside [0, 1], 0 and 1 included, yields a Test whose
\* bit_flips counters are all 0 and whose total_experiments is 0.
C15_MaxDevianceValidated ==
    (new_fn = "sac::Test::try_new" /\ new_result.tag # "pending") =>
        IF InUnitInterval(new_args.max_deviance)
        THEN /\ new_result.tag = "Ok"
             /\ DOMAIN new_result.bit_flips = 1 .. N
             /\ \A i \in 1 .. N : new_result.bit_flips[i] = 0
             /\ new_result.total_experiments = 0
             /\ new_result.max_deviance = new_args.max_deviance
        ELSE /\ new_result.tag = "InvalidMaxDeviance"
             /\ new_result.value = new_args.max_deviance
             /\ DOMAIN new_result = { "tag", "value" }

\* C15 witness: a construction with max-deviance 1.25 was rejected.
C15_Witness ==
    /\ new_fn = "sac::Test::try_new"
    /\ new_args.max_deviance = <<5, 4>>
    /\ new_result.tag # "pending"
    /\ new_result.tag = "InvalidMaxDeviance"

\* The end points 0 and 1 are accepted.
New_SacEndPointsAccepted ==
    (new_fn = "sac::Test::try_new" /\ new_result.tag # "pending"
       /\ new_args.max_deviance \in { <<0, 1>>, <<1, 1>> }) =>
        new_result.tag = "Ok"

\* C16: construction of a goodness-of-fit Test or of a bitwise correlation
\* Test validates its threshold: a threshold outside [0, 1] is rejected with
\* a configuration error and no Test is produced.
C16_ThresholdValidated ==
    (new_fn \in { "goodness_of_fit::Test::new", "bitwise::Test::new" }
       /\ new_result.tag # "pending"
       /\ ~InUnitInterval(new_args.threshold)) =>
        new_result.tag # "Test"

\* Both constructors store the threshold they are given, whatever it is.
New_ThresholdStoredAsGiven ==
    (new_fn \in { "goodness_of_fit::Test::new", "bitwise::Test::new" }
       /\ new_result.tag # "pending") =>
        /\ new_result.tag = "Test"
        /\ new_result.test.threshold = new_args.threshold

(***************************************************************************)
(* Builders                                                                *)
(*   bitbelay-report/src/section/test/builder.rs  (Test-section)           *)
(*   bitbelay-report/src/builder.rs               (Report)                 *)
(*   bitbelay-suites/src/avalanche/suite.rs       (avalanche Suite)        *)
(*   bitbelay-suites/src/chi_squared/suite.rs     (chi-squared Suite)      *)
(* Every method takes the builder by value: a call that returns an error   *)
(* has consumed the builder.  An Option<NonEmpty<T>> is None or Some of a  *)
(* non-empty sequence.                                                     *)
(***************************************************************************)
DEFAULT_BUCKETS == 256

Multiple(field) == [ tag |-> "Multiple", field |-> field ]

Missing(field) == [ tag |-> "Missing", field |-> field ]

OkBuilder(builder) == [ tag |-> "Ok", builder |-> builder ]

Built(object) == [ tag |-> "Built", object |-> object ]

\* Builder::default() of the four builders.
TestBuilder_default ==
    [ title |-> None, description |-> None, modules |-> None ]

ReportBuilder_default == [ title |-> None, sections |-> None ]

AvalancheSuiteBuilder_default == [ build_hasher |-> None ]

ChiSquaredSuiteBuilder_default == [ build_hasher |-> None, buckets |-> None ]

\* section::test::Builder::title
TestBuilder_title(self, title) ==
    IF IsSome(self.title) THEN Multiple("title")
    ELSE OkBuilder([ self EXCEPT !.title = Some(title) ])

\* A description() that replaces an earlier description.
TestBuilder_description_replace(self, description) ==
    OkBuilder([ self EXCEPT !.description = Some(description) ])

\* section::test::Builder::description
TestBuilder_description(self, description) ==
    IF IsSome(self.description) THEN Multiple("description")
    ELSE OkBuilder([ self EXCEPT !.description = Some(description) ])

\* section::test::Builder::push_module
TestBuilder_push_module(self, module) ==
    LET modules == IF IsSome(self.modules)
                   THEN Append(self.modules[1], module)
                   ELSE << module >>
    IN  [ self EXCEPT !.modules = Some(modules) ]

\* A try_build that looks at the modules before the title and description.
TestBuilder_try_build_modules_first(self) ==
    IF ~IsSome(self.modules) THEN Missing("modules")
    ELSE IF ~IsSome(self.title) THEN Missing("title")
    ELSE IF ~IsSome(self.description) THEN Missing("description")
    ELSE Built([ title |-> self.title[1], description |-> self.description[1],
                 modules |-> self.modules[1] ])

\* section::test::Builder::try_build
TestBuilder_try_build(self) ==
    IF ~IsSome(self.title) THEN Missing("title")
    ELSE IF ~IsSome(self.description) THEN Missing("description")
    ELSE IF ~IsSome(self.modules) THEN Missing("modules")
    ELSE Built([ title |-> self.title[1], description |-> self.description[1],
                 modules |-> self.modules[1] ])

\* bitbelay_report::Builder::title
ReportBuilder_title(self, title) ==
    IF IsSome(self.title) THEN Multiple("title")
    ELSE OkBuilder([ self EXCEPT !.title = Some(title) ])

\* bitbelay_report::Builder::push_test_result
ReportBuilder_push_test_result(self, result) ==
    LET sections == IF IsSome(self.sections)
                    THEN Append(self.sections[1], result)
                    ELSE << result >>
    IN  [ self EXCEPT !.sections = Some(sections) ]

\* bitbelay_report::Builder::try_build (the date of the Report is left out).
ReportBuilder_try_build(self) ==
    IF ~IsSome(self.title) THEN Missing("title")
    ELSE IF ~IsSome(self.sections) THEN Missing("sections")
    ELSE Built([ title |-> self.title[1], sections |-> self.sections[1] ])

\* avalanche::suite::Builder::build_hasher
AvalancheSuiteBuilder_build_hasher(self, build_hasher) ==
    IF IsSome(self.build_hasher) THEN Multiple("build hasher")
    ELSE OkBuilder([ self EXCEPT !.build_hasher = Some(build_hasher) ])

\* avalanche::suite::Builder::try_build
AvalancheSuiteBuilder_try_build(self) ==
    IF ~IsSome(self.build_hasher) THEN Missing("build hasher")
    ELSE Built([ build_hasher |-> self.build_hasher[1], tests |-> << >> ])

\* chi_squared::suite::Builder::buckets
ChiSquaredSuiteBuilder_buckets(self, buckets) ==
    IF IsSome(self.buckets) THEN Multiple("buckets")
    ELSE OkBuilder([ self EXCEPT !.buckets = Some(buckets) ])

\* chi_squared::suite::Builder::build_hasher
ChiSquaredSuiteBuilder_build_hasher(self, build_hasher) ==
    IF IsSome(self.build_hasher) THEN Multiple("build hasher")
    ELSE OkBuilder([ self EXCEPT !.build_hasher = Some(build_hasher) ])

\* chi_squared::suite::Builder::try_build
ChiSquaredSuiteBuilder_try_build(self) ==
    IF ~IsSome(self.build_hasher) THEN Missing("build hasher")
    ELSE Built([ build_hasher |-> self.build_hasher[1], tests |-> << >>,
                 buckets |-> IF IsSome(self.buckets) THEN self.buckets[1]
                                                     ELSE DEFAULT_BUCKETS ])

\* The arguments the builders are called with.
Titles == { "Avalanching", "Chi Squared" }

Descriptions == { "first description", "second description" }

Modules == { "Pass", "Fail" }

TestSections ==
    { [ title |-> "Speed Test", description |-> "first description",
        modules |-> << m >> ] : m \in Modules }

BuilderKinds ==
    { "section::test::Builder", "report::Builder",
      "avalanche::suite::Builder", "chi_squared::suite::Builder" }

BuilderDefault(kind) ==
    CASE kind = "section::test::Builder" -> TestBuilder_default
      [] kind = "report::Builder" -> ReportBuilder_default
      [] kind = "avalanche::suite::Builder" -> AvalancheSuiteBuilder_default
      [] kind = "chi_squared::suite::Builder" -> ChiSquaredSuiteBuilder_default

BldInit ==
    /\ bld_kind \in BuilderKinds
    /\ bld_builder = Some(BuilderDefault(bld_kind))
    /\ bld_calls = << >>
    /\ bld_last = [ tag |-> "new" ]

\* A call of a method returning Result<Self> or Result<object>: the builder
\* was moved into the call, and comes back only inside Ok(self).
BldFallible(method, argument, ret) ==
    /\ bld_builder' = IF ret.tag = "Ok" THEN Some(ret.builder) ELSE None
    /\ bld_last' = IF ret.tag = "Ok" THEN [ tag |-> "Ok" ] ELSE ret
    /\ bld_calls' = Append(bld_calls, << method, argument >>)
    /\ UNCHANGED bld_kind
    /\ UNCHANGED << gofVars, expVars, sacVars, corVars, newVars, suiteVars, statVars, spdVars >>

\* A call of a push method, which returns Self.
BldPush(method, argument, builder) ==
    /\ bld_builder' = Some(builder)
    /\ bld_last' = [ tag |-> "Ok" ]
    /\ bld_calls' = Append(bld_calls, << method, argument >>)
    /\ UNCHANGED bld_kind
    /\ UNCHANGED << gofVars, expVars, sacVars, corVars, newVars, suiteVars, statVars, spdVars >>

Pushes(method) ==
    Cardinality({ k \in 1 .. Len(bld_calls) : bld_calls[k][1] = method })

BldTestTitle ==
    /\ bld_kind = "section::test::Builder" /\ IsSome(bld_builder)
    /\ \E title \in Titles :
           BldFallible("title", title, TestBuilder_title(bld_builder[1], title))

BldTestDescription ==
    /\ bld_kind = "section::test::Builder" /\ IsSome(bld_builder)
    /\ \E description \in Descriptions :
           BldFallible("description", description,
                       TestBuilder_description(bld_builder[1], description))

BldTestPushModule ==
    /\ bld_kind = "section::test::Builder" /\ IsSome(bld_builder)
    /\ Pushes("push_module") < MaxPushes
    /\ \E module \in Modules :
           BldPush("push_module", module,
                   TestBuilder_push_module(bld_builder[1], module))

BldTestTryBuild ==
    /\ bld_kind = "section::test::Builder" /\ IsSome(bld_builder)
    /\ BldFallible("try_build", "", TestBuilder_try_build(bld_builder[1]))

BldReportTitle ==
    /\ bld_kind = "report::Builder" /\ IsSome(bld_builder)
    /\ \E title \in Titles :
           BldFallible("title", title, ReportBuilder_title(bld_builder[1], title))

BldReportPushTestResult ==
    /\ bld_kind = "report::Builder" /\ IsSome(bld_builder)
    /\ Pushes("push_test_result") < MaxPushes
    /\ \E result \in TestSections :
           BldPush("push_test_result", result,
                   ReportBuilder_push_test_result(bld_builder[1], result))

BldReportTryBuild ==
    /\ bld_kind = "report::Builder" /\ IsSome(bld_builder)
    /\ BldFallible("try_build", "", ReportBuilder_try_build(bld_builder[1]))

BldAvalancheBuildHasher ==
    /\ bld_kind = "avalanche::suite::Builder" /\ IsSome(bld_builder)
    /\ \E build_hasher \in Hashers :
           BldFallible("build_hasher", build_hasher,
                       AvalancheSuiteBuilder_build_hasher(bld_builder[1],
                                                          build_hasher))

BldAvalancheTryBuild ==
    /\ bld_kind = "avalanche::suite::Builder" /\ IsSome(bld_builder)
    /\ BldFallible("try_build", "",
                   AvalancheSuiteBuilder_try_build(bld_builder[1]))

BldChiSquaredBuckets ==
    /\ bld_kind = "chi_squared::suite::Builder" /\ IsSome(bld_builder)
    /\ \E buckets \in 1 .. MaxBuckets :
           BldFallible("buckets", buckets,
                       ChiSquaredSuiteBuilder_buckets(bld_builder[1], buckets))

BldChiSquaredBuildHasher ==
    /\ bld_kind = "chi_squared::suite::Builder" /\ IsSome(bld_builder)
    /\ \E build_hasher \in Hashers :
           BldFallible("build_hasher", build_hasher,
                       ChiSquaredSuiteBuilder_build_hasher(bld_builder[1],
                                                           build_hasher))

BldChiSquaredTryBuild ==
    /\ bld_kind = "chi_squared::suite::Builder" /\ IsSome(bld_builder)
    /\ BldFallible("try_build", "",
                   ChiSquaredSuiteBuilder_try_build(bld_builder[1]))

BldNext ==
    \/ BldTestTitle \/ BldTestDescription \/ BldTestPushModule
    \/ BldTestTryBuild
    \/ BldReportTitle \/ BldReportPushTestResult \/ BldReportTryBuild
    \/ BldAvalancheBuildHasher \/ BldAvalancheTryBuild
    \/ BldChiSquaredBuckets \/ BldChiSquaredBuildHasher
    \/ BldChiSquaredTryBuild

(***************************************************************************)
(* Properties of the builders, stated over the history of calls.           *)
(***************************************************************************)
LastCall == bld_calls[Len(bld_calls)]

\* The positions of the calls of `method` made before the last call.
EarlierCalls(method) ==
    { k \in 1 .. (Len(bld_calls) - 1) : bld_calls[k][1] = method }

CalledBefore(method) == EarlierCalls(method) # { }

\* The argument of the first call of `method`.
FirstArgument(method) ==
    bld_calls[CHOOSE k \in EarlierCalls(method) :
                  \A j \in EarlierCalls(method) : k <= j][2]

\* The arguments of the calls of `method` before the last call, in call order.
PushedBefore(method) ==
    LET pushes == SelectSeq(SubSeq(bld_calls, 1, Len(bld_calls) - 1),
                            LAMBDA c : c[1] = method)
    IN  [ k \in 1 .. Len(pushes) |-> pushes[k][2] ]

\* The required fields of each builder in the order title, description,
\* modules/sections, each with the method that supplies it.
Required(kind) ==
    CASE kind = "section::test::Builder" ->
             << << "title", "title" >>, << "description", "description" >>,
                << "modules", "push_module" >> >>
      [] kind = "report::Builder" ->
             << << "title", "title" >>, << "sections", "push_test_result" >> >>
      [] kind = "avalanche::suite::Builder" ->
             << << "build hasher", "build_hasher" >> >>
      [] kind = "chi_squared::suite::Builder" ->
             << << "build hasher", "build_hasher" >> >>

\* The object try_build has to produce from the calls made.
ExpectedObject(kind) ==
    CASE kind = "section::test::Builder" ->
             [ title |-> FirstArgument("title"),
               description |-> FirstArgument("description"),
               modules |-> PushedBefore("push_module") ]
      [] kind = "report::Builder" ->
             [ title |-> FirstArgument("title"),
               sections |-> PushedBefore("push_test_result") ]
      [] kind = "avalanche::suite::Builder" ->
             [ build_hasher |-> FirstArgument("build_hasher"), tests |-> << >> ]
      [] kind = "chi_squared::suite::Builder" ->
             [ build_hasher |-> FirstArgument("build_hasher"), tests |-> << >>,
               buckets |-> IF CalledBefore("buckets")
                           THEN FirstArgument("buckets") ELSE 256 ]

\* C13: building a Test-section, Report or Suite succeeds if and only if
\* every required field is present (Test-section: title, description and at
\* least one module; Report: title and at least one section; Suite: build
\* hasher); otherwise try_build returns a Missing error naming the first
\* absent field in the order title, description, modules/sections, and
\* produces no object.  Pushed modules/sections appear in the built object
\* in push order.
C13_BuildNeedsRequiredFields ==
    (bld_calls # << >> /\ LastCall[1] = "try_build") =>
        LET required == Required(bld_kind)
            absent == { k \in 1 .. Len(required) : ~CalledBefore(required[k][2]) }
        IN  /\ bld_builder = None
            /\ IF absent = { }
               THEN /\ bld_last.tag = "Built"
                    /\ bld_last.object = ExpectedObject(bld_kind)
               ELSE /\ bld_last.tag = "Missing"
                    /\ bld_last.field =
                           required[CHOOSE k \in absent :
                                        \A j \in absent : k <= j][1]
                    /\ DOMAIN bld_last = { "tag", "field" }

\* C13 witness: try_build on a Test-section builder with a title but neither
\* description nor modules returned Missing(description).
C13_Witness ==
    /\ bld_kind = "section::test::Builder"
    /\ bld_calls # << >>
    /\ LastCall[1] = "try_build"
    /\ CalledBefore("title")
    /\ ~CalledBefore("description")
    /\ ~CalledBefore("push_module")
    /\ bld_last = Missing("description")

\* A Test-section was built from two pushed modules that differ.
Bld_TwoModulesBuilt ==
    /\ bld_kind = "section::test::Builder"
    /\ bld_last.tag = "Built"
    /\ Len(bld_last.object.modules) = 2
    /\ bld_last.object.modules[1] # bld_last.object.modules[2]

\* The error name of the field a setter sets.
FieldOf(method) == IF method = "build_hasher" THEN "build hasher" ELSE method

\* The field of the builder a setter sets.
StoredBy(builder, method) ==
    CASE method = "title" -> builder.title
      [] method = "description" -> builder.description
      [] method = "build_hasher" -> builder.build_hasher
      [] method = "buckets" -> builder.buckets

\* C14: on every builder, setting a single-valued field (title, description,
\* build hasher, buckets) a second time is rejected with a Multiple error
\* naming that field, regardless of the order in which other fields were
\* set; the first call for each field always succeeds.
C14_SecondSetRejected ==
    (bld_calls # << >>
       /\ LastCall[1] \in { "title", "description", "build_hasher", "buckets" }) =>
        IF CalledBefore(LastCall[1])
        THEN /\ bld_last = Multiple(FieldOf(LastCall[1]))
             /\ bld_builder = None
        ELSE /\ bld_last.tag = "Ok"
             /\ IsSome(bld_builder)
             /\ StoredBy(bld_builder[1], LastCall[1]) = Some(LastCall[2])

\* C14 witness: on a Test-section builder with a title and a module, a
\* second description() was rejected.
C14_Witness ==
    /\ bld_kind = "section::test::Builder"
    /\ bld_calls # << >>
    /\ LastCall[1] = "description"
    /\ CalledBefore("description")
    /\ CalledBefore("title")
    /\ CalledBefore("push_module")
    /\ bld_last = Multiple("description")

\* A second buckets() on a chi-squared Suite builder was rejected.
Bld_SecondBucketsRejected ==
    /\ bld_kind = "chi_squared::suite::Builder"
    /\ bld_last = Multiple("buckets")

(***************************************************************************)
(* Suites                                                                  *)
(*   bitbelay-suites/src/avalanche.rs, chi_squared.rs, correlation.rs      *)
(* A Test held by a Suite is the record of the fields of the Test struct   *)
(* that its report section depends on.  A goodness-of-fit Test also        *)
(* carries `cdf`, what the library's ChiSquared cdf yields on its buckets. *)
(***************************************************************************)
SuiteKinds == { "avalanche", "chi_squared", "correlation" }

\* Suite::title of the three Suites.
Suite_title(kind) ==
    CASE kind = "avalanche" -> "Avalanching"
      [] kind = "chi_squared" -> "Chi Squared"
      [] kind = "correlation" -> "Chi Squared"

\* A push that puts the new Test in front of the earlier ones.
Suite_push_front(tests, test) == << test >> \o tests

\* `self.tests.push(test)`
Suite_push(tests, test) == Append(tests, test)

RECURSIVE RunExperiments(_, _, _, _, _, _)
\* The loop of run_strict_avalanche_criterion_test: the outcomes of
\* `experiments` calls of run_single_experiment, stopping at the first error.
RunExperiments(build_hasher, provider, iterations_per_experiment, bit_flips, total_experiments, experiments) ==
    IF experiments = 0
    THEN { [ tag |-> "Ok", bit_flips |-> bit_flips,
             total_experiments |-> total_experiments ] }
    ELSE UNION { UNION {
             LET r == SAC_run_single_experiment(build_hasher, bit_flips,
                                                total_experiments, data, indices)
             IN  IF r.tag # "Ok" THEN { r }
                 ELSE RunExperiments(build_hasher, provider,
                                     iterations_per_experiment, r.bit_flips,
                                     r.total_experiments, experiments - 1)
             : indices \in Draws(iterations_per_experiment, data) }
         : data \in Provide(provider) }

\* avalanche::Suite::run_strict_avalanche_criterion_test: the possible
\* outcomes, each the value returned and the Suite's tests afterwards.
Suite_run_strict_avalanche_criterion_test(build_hasher, tests, provider, experiments, iterations_per_experiment, max_deviance) ==
    LET test == SAC_try_new(iterations_per_experiment, max_deviance)
    IN  IF test.tag # "Ok"
        THEN { [ tag |-> "Err", error |-> test.tag, tests |-> tests ] }
        ELSE { IF r.tag # "Ok"
               THEN [ tag |-> "Err", error |-> "EmptyData", tests |-> tests ]
               ELSE [ tag |-> "Ok", error |-> "",
                      tests |-> Suite_push(tests,
                          [ kind |-> "StrictAvalancheCriterion",
                            bit_flips |-> r.bit_flips,
                            iterations_per_experiment |-> iterations_per_experiment,
                            total_experiments |-> r.total_experiments,
                            max_deviance |-> max_deviance ]) ]
               : r \in RunExperiments(build_hasher, provider,
                                      iterations_per_experiment, test.bit_flips,
                                      test.total_experiments, experiments) }

RECURSIVE IterateGoF(_, _)
\* The loop of run_goodness_of_fit over the digests of its inputs.
IterateGoF(buckets, hashes) ==
    IF hashes = << >> THEN buckets
    ELSE IterateGoF(GoF_single_iteration(buckets, Head(hashes)), Tail(hashes))

\* chi_squared::Suite::run_goodness_of_fit: the Suite's tests afterwards.
Suite_run_goodness_of_fit(tests, buckets, hashes, threshold, cdf) ==
    LET test == GoF_new(buckets, threshold)
    IN  Suite_push(tests, [ kind |-> "GoodnessOfFit",
                            buckets |-> IterateGoF(test.buckets, hashes),
                            threshold |-> test.threshold,
                            cdf |-> cdf ])

\* correlation::Suite::run_bitwise_test: the Suite's tests afterwards.
Suite_run_bitwise_test(tests, hashes, threshold) ==
    LET test == Bitwise_new(threshold)
    IN  Suite_push(tests, [ kind |-> "Bitwise",
                            bit_values |-> Bitwise_run(test.bit_values, hashes),
                            threshold |-> test.threshold ])

\* get_report_base().push_module(Module::new(result, name, ..)).try_build()
\* .unwrap() of the report_section of every Test.
SectionWithModule(title, result, name) ==
    TestBuilder_try_build(
        TestBuilder_push_module(
            TestBuilder_description(
                TestBuilder_title(TestBuilder_default, title).builder,
                "Overview, Algorithm, Interpretation").builder,
            [ result |-> result, name |-> name ])).object

\* Test::report_section of the Test enums of the three Suites: the section,
\* or a panic.
Test_report_section(test) ==
    CASE test.kind = "StrictAvalancheCriterion" ->
             [ tag |-> "section",
               section |-> SectionWithModule(
                   "Strict Avalanche Criterion",
                   SAC_report_section(
                       SAC_results(test.bit_flips, test.total_experiments,
                                   test.iterations_per_experiment,
                                   test.max_deviance)),
                   "Strict Avalanche Criterion") ]
      [] test.kind = "GoodnessOfFit" ->
             LET result == GoF_report_section(test.buckets, test.threshold, test.cdf)
             IN  IF result = "panic" THEN [ tag |-> "panic" ]
                 ELSE [ tag |-> "section",
                        section |-> SectionWithModule(
                            << "Goodness of Fit", SumSeq(test.buckets), "iterations" >>,
                            result, "Failure to Reject the Null Hypothesis") ]
      [] test.kind = "Bitwise" ->
             LET result == Bitwise_report_section(test.bit_values, test.threshold)
             IN  IF result = "panic" THEN [ tag |-> "panic" ]
                 ELSE [ tag |-> "section",
                        section |-> SectionWithModule(
                            "Bitwise Pearson Correlation", result,
                            "Pearson correlation threshold") ]

RECURSIVE PushTestResults(_, _)
\* `for test in tests { builder = builder.push_test_result(test); }`
PushTestResults(builder, sections) ==
    IF sections = << >> THEN builder
    ELSE PushTestResults(ReportBuilder_push_test_result(builder, Head(sections)),
                         Tail(sections))

\* Suite::report: the Report, or a panic (of a report_section, or of the
\* unwrap of try_build).
Suite_report(kind, tests) ==
    LET sections == [ k \in 1 .. Len(tests) |-> Test_report_section(tests[k]) ]
    IN  IF \E k \in 1 .. Len(tests) : sections[k].tag = "panic"
        THEN [ tag |-> "panic" ]
        ELSE LET builder == PushTestResults(
                     ReportBuilder_title(ReportBuilder_default,
                                         Suite_title(kind)).builder,
                     [ k \in 1 .. Len(tests) |-> sections[k].section ])
                 built == ReportBuilder_try_build(builder)
             IN  IF built.tag # "Built" THEN [ tag |-> "panic" ]
                 ELSE [ tag |-> "Report", report |-> built.object ]

\* The arguments the run_* methods of the model's Suites are called with.
SuiteExperiments == { 1, 2 }

SuiteMaxDeviances == { <<1, 100>>, <<5, 4>> }

SuiteIterations == { 1, 5 }

SuiteBatchInputs == { << 0 >>, << 7 >> }

SuiteThreshold == <<1, 20>>

\* Suite { build_hasher, tests: Vec::new(), .. } of the builders' try_build.
SuiteInit ==
    /\ suite_kind \in SuiteKinds
    /\ suite_build_hasher \in Hashers
    /\ suite_buckets \in IF suite_kind = "chi_squared"
                         THEN { Some(buckets) : buckets \in 1 .. MaxBuckets }
                         ELSE { None }
    /\ suite_tests = << >>
    /\ suite_ok_calls = 0
    /\ suite_last = [ tag |-> "new", error |-> "" ]
    /\ suite_report = [ tag |-> "unrendered" ]

SuiteRunStrictAvalancheCriterionTest ==
    /\ suite_kind = "avalanche"
    /\ \E provider \in { 0, 1 }, experiments \in SuiteExperiments,
          max_deviance \in SuiteMaxDeviances :
       \E ret \in Suite_run_strict_avalanche_criterion_test(
                      suite_build_hasher, suite_tests, provider, experiments,
                      1, max_deviance) :
           /\ ret.tag = "Ok" => suite_ok_calls < MaxTests
           /\ suite_tests' = ret.tests
           /\ suite_last' = [ tag |-> ret.tag, error |-> ret.error ]
           /\ suite_ok_calls' = IF ret.tag = "Ok" THEN suite_ok_calls + 1
                                                  ELSE suite_ok_calls
    /\ suite_report' = [ tag |-> "unrendered" ]
    /\ UNCHANGED << suite_kind, suite_build_hasher, suite_buckets >>
    /\ UNCHANGED << gofVars, expVars, sacVars, corVars, newVars, bldVars, statVars, spdVars >>

SuiteRunGoodnessOfFit ==
    /\ suite_kind = "chi_squared"
    /\ suite_ok_calls < MaxTests
    /\ \E iterations \in SuiteIterations, cdf \in { <<1, 2>>, <<1, 1>> } :
       \E inputs \in [ 1 .. iterations -> ProvidedInputs ] :
           suite_tests' = Suite_run_goodness_of_fit(
                              suite_tests, suite_buckets[1],
                              compute_hashes(suite_build_hasher, inputs),
                              SuiteThreshold, cdf)
    /\ suite_last' = [ tag |-> "Ok", error |-> "" ]
    /\ suite_ok_calls' = suite_ok_calls + 1
    /\ suite_report' = [ tag |-> "unrendered" ]
    /\ UNCHANGED << suite_kind, suite_build_hasher, suite_buckets >>
    /\ UNCHANGED << gofVars, expVars, sacVars, corVars, newVars, bldVars, statVars, spdVars >>

SuiteRunBitwiseTest ==
    /\ suite_kind = "correlation"
    /\ suite_ok_calls < MaxTests
    /\ \E iterations \in 1 .. 2 :
       \E inputs \in [ 1 .. iterations -> SuiteBatchInputs ] :
           suite_tests' = Suite_run_bitwise_test(
                              suite_tests,
                              compute_hashes(suite_build_hasher, inputs),
                              SuiteThreshold)
    /\ suite_last' = [ tag |-> "Ok", error |-> "" ]
    /\ suite_ok_calls' = suite_ok_calls + 1
    /\ suite_report' = [ tag |-> "unrendered" ]
    /\ UNCHANGED << suite_kind, suite_build_hasher, suite_buckets >>
    /\ UNCHANGED << gofVars, expVars, sacVars, corVars, newVars, bldVars, statVars, spdVars >>

SuiteReport ==
    /\ suite_report' = Suite_report(suite_kind, suite_tests)
    /\ UNCHANGED << suite_kind, suite_build_hasher, suite_buckets, suite_tests,
                    suite_ok_calls, suite_last >>
    /\ UNCHANGED << gofVars, expVars, sacVars, corVars, newVars, bldVars, statVars, spdVars >>

SuiteNext ==
    \/ SuiteRunStrictAvalancheCriterionTest
    \/ SuiteRunGoodnessOfFit
    \/ SuiteRunBitwiseTest
    \/ SuiteReport

(***************************************************************************)
(* Properties of the Suites.                                               *)
(***************************************************************************)
\* C11: a Suite keeps its Tests in invocation order: starting from an empty
\* list, each successful run_* call appends exactly one Test at the end and
\* never removes or reorders earlier Tests, so tests().len() equals the
\* number of successful run_* calls; a run_* call that returns an error
\* appends nothing.
C11_TestsInInvocationOrder ==
    [][ /\ Len(suite_tests') = suite_ok_calls'
        /\ Len(suite_tests) <= Len(suite_tests')
        /\ SubSeq(suite_tests', 1, Len(suite_tests)) = suite_tests
        /\ (suite_ok_calls' = suite_ok_calls + 1) =>
               Len(suite_tests') = Len(suite_tests) + 1
        /\ (suite_ok_calls' = suite_ok_calls) => suite_tests' = suite_tests
        /\ (suite_last'.tag = "Err") =>
               /\ suite_tests' = suite_tests
               /\ suite_ok_calls' = suite_ok_calls ]_vars

\* C11 witness: a Suite holds two different Tests, the second with more
\* experiments than the first, and a later run_* call returned an error.
C11_Witness ==
    /\ suite_kind = "avalanche"
    /\ Len(suite_tests) = 2
    /\ suite_ok_calls = 2
    /\ suite_tests[1].total_experiments < suite_tests[2].total_experiments
    /\ suite_last.tag = "Err"
    /\ suite_last.error = "EmptyData"

\* What C12 states of a rendered report.
ReportMapsTests ==
    /\ suite_report.tag = "Report"
    /\ suite_report.report.title = Suite_title(suite_kind)
    /\ Len(suite_report.report.sections) = Len(suite_tests)
    /\ \A k \in 1 .. Len(suite_tests) :
           /\ Test_report_section(suite_tests[k]).tag = "section"
           /\ suite_report.report.sections[k]
                  = Test_report_section(suite_tests[k]).section

\* C12: for a Suite holding m >= 1 Tests, report() yields a Report whose
\* title is the suite title and whose sections are exactly m Test-sections,
\* the k-th section being the report_section() of the k-th Test in
\* invocation order.
C12_ReportMapsTests ==
    (suite_report.tag # "unrendered" /\ Len(suite_tests) >= 1) =>
        ReportMapsTests

\* report() of the avalanche Suite is as C12 states.
Suite_AvalancheReportMapsTests ==
    (suite_kind = "avalanche" /\ suite_report.tag # "unrendered"
       /\ Len(suite_tests) >= 1) =>
        ReportMapsTests

\* report() of every Suite is as C12 states when no report_section() of its
\* Tests panics, and panics otherwise.
Suite_ReportMapsTestsUnlessPanic ==
    (suite_report.tag # "unrendered" /\ Len(suite_tests) >= 1) =>
        IF \A k \in 1 .. Len(suite_tests) :
               Test_report_section(suite_tests[k]).tag = "section"
        THEN ReportMapsTests
        ELSE suite_report.tag = "panic"

\* report() does not change the Suite's list of Tests.
Suite_ReportKeepsTests ==
    [][ suite_report'.tag # "unrendered" => suite_tests' = suite_tests ]_vars

\* C28: in every reachable Suite state, the empty Suite included, report()
\* returns a Report with the suite title and a non-empty ordered section
\* list, and never aborts.
C28_ReportNeverAborts ==
    suite_report.tag # "unrendered" =>
        /\ suite_report.tag = "Report"
        /\ suite_report.report.title = Suite_title(suite_kind)
        /\ Len(suite_report.report.sections) >= 1

\* report() of a Suite that holds no Test aborts: no section was pushed, so
\* try_build() is Err(Missing(Sections)) and its unwrap() panics.
Suite_EmptyReportAborts ==
    (suite_report.tag # "unrendered" /\ suite_tests = << >>) =>
        suite_report.tag = "panic"

\* A Suite whose report() was called before any Test was run.
Suite_EmptyReportReached ==
    /\ suite_report.tag = "panic"
    /\ suite_tests = << >>
    /\ suite_last.tag = "new"

(***************************************************************************)
(* Correlation functions                                                   *)
(*   bitbelay-statistics/src/correlation/pearson.rs, spearman.rs, lib.rs   *)
(* pearson::correlation computes in f64.  Its sums and products are        *)
(* rounded here to MantissaBits significant bits, round-to-nearest-even,   *)
(* as f64 rounds to 53; the elements are integers, so every rounded value  *)
(* is an integer.  The final root and quotient are kept exact.             *)
(***************************************************************************)
\* The longest slice handed to the functions.
MaxVector == 3

\* The elements of the slices.
SliceValues == { 1, 3, 5 }

\* Significant bits of the floating-point format.
MantissaBits == 3

RECURSIVE BitLength(_)
\* The number of binary digits of x >= 0.
BitLength(x) == IF x = 0 THEN 0 ELSE 1 + BitLength(x \div 2)

\* The floating-point number nearest to the integer x, ties to even.
Fl(x) ==
    LET m == Abs(x)
        e == BitLength(m) - MantissaBits
    IN  IF e <= 0 THEN x
        ELSE LET q == m \div Pow2(e)
                 r == m % Pow2(e)
                 half == Pow2(e - 1)
                 up == r > half \/ (r = half /\ q % 2 = 1)
                 rounded == (IF up THEN q + 1 ELSE q) * Pow2(e)
             IN  IF x < 0 THEN 0 - rounded ELSE rounded

RECURSIVE FlSum(_, _)
\* `iter().sum()` in f64: the elements added in order to the accumulator.
FlSum(acc, s) ==
    IF s = << >> THEN acc ELSE FlSum(Fl(acc + Head(s)), Tail(s))

\* `a.iter().zip(b.iter()).map(|(a, b)| a * b)` in f64; `powi(2)` when a = b.
FlProducts(a, b) == [ k \in 1 .. Len(a) |-> Fl(a[k] * b[k]) ]

\* pearson::correlation in floating point: None, Some(NaN) when the
\* radicand is negative, else Some(<< num, radicand >>) for num / sqrt(radicand).
pearson_correlation_fl(a, b) ==
    IF Len(a) # Len(b) \/ a = << >> THEN None
    ELSE LET sum_a == FlSum(0, a)
             sum_b == FlSum(0, b)
             sum_a_squared == FlSum(0, FlProducts(a, a))
             sum_b_squared == FlSum(0, FlProducts(b, b))
             sum_a_times_b == FlSum(0, FlProducts(a, b))
             n == Len(a)
             num == Fl(Fl(n * sum_a_times_b) - Fl(sum_a * sum_b))
             radicand == Fl(Fl(Fl(n * sum_a_squared) - Fl(sum_a * sum_a))
                              * Fl(Fl(n * sum_b_squared) - Fl(sum_b * sum_b)))
         IN  IF radicand = 0 THEN None
             ELSE IF radicand < 0 THEN Some(<< 0, 0 >>)
             ELSE Some(<< num, radicand >>)

\* rank (lib.rs): equal values share a rank and the ranks of the distinct
\* values are 1, 2, ... in their sort order.
rank(data) ==
    [ k \in 1 .. Len(data) |->
        Cardinality({ data[j] : j \in { j \in 1 .. Len(data) : data[j] < data[k] } }) + 1 ]

\* `differences` of spearman::correlation: the sum of the squared rank
\* differences.
SumSquaredRankDifferences(a, b) ==
    SumSeq([ k \in 1 .. Len(a) |-> (a[k] - b[k]) * (a[k] - b[k]) ])

\* spearman::correlation: 1.0 - (6.0 * differences) / (n * (n^2 - 1.0)) as
\* one fraction; 0.0 / 0.0 is NaN.
spearman_correlation(a, b) ==
    IF a = << >> \/ Len(a) # Len(b) THEN None
    ELSE LET ra == rank(a)
             rb == rank(b)
             n == Len(ra)
             differences == SumSquaredRankDifferences(ra, rb)
             denominator == n * (n * n - 1)
         IN  IF denominator = 0
             THEN Some(<< 0, 0 >>)
             ELSE Some(<< denominator - 6 * differences, denominator >>)

\* The slices handed to the functions.
Slices ==
    UNION { [ 1 .. len -> SliceValues ] : len \in 0 .. MaxVector }

StatInit ==
    /\ stat_a \in Slices
    /\ stat_b \in Slices
    /\ stat_pearson = [ tag |-> "pending" ]
    /\ stat_spearman = [ tag |-> "pending" ]

StatPearson ==
    /\ stat_pearson.tag = "pending"
    /\ stat_pearson' = [ tag |-> "returned",
                         value |-> pearson_correlation_fl(stat_a, stat_b) ]
    /\ UNCHANGED << stat_a, stat_b, stat_spearman >>
    /\ UNCHANGED << gofVars, expVars, sacVars, corVars, newVars, bldVars,
                    suiteVars, spdVars >>

StatSpearman ==
    /\ stat_spearman.tag = "pending"
    /\ stat_spearman' = [ tag |-> "returned",
                          value |-> spearman_correlation(stat_a, stat_b) ]
    /\ UNCHANGED << stat_a, stat_b, stat_pearson >>
    /\ UNCHANGED << gofVars, expVars, sacVars, corVars, newVars, bldVars,
                    suiteVars, spdVars >>

StatNext == StatPearson \/ StatSpearman

(***************************************************************************)
(* Properties of the correlation functions.                                *)
(***************************************************************************)
\* All elements of v are equal (v has zero variance).
ZeroVariance(v) == \A i, j \in 1 .. Len(v) : v[i] = v[j]

\* b = k * a + m elementwise for some k > 0 (k < 0), a not constant.
Linear(a, b) ==
    /\ Len(a) = Len(b)
    /\ ~ZeroVariance(a)
    /\ \A i, j, p, q \in 1 .. Len(a) :
           (b[i] - b[j]) * (a[p] - a[q]) = (b[p] - b[q]) * (a[i] - a[j])

IncreasingLinear(a, b) ==
    Linear(a, b) /\ \A i, j \in 1 .. Len(a) : a[i] < a[j] => b[i] < b[j]

DecreasingLinear(a, b) ==
    Linear(a, b) /\ \A i, j \in 1 .. Len(a) : a[i] < a[j] => b[i] > b[j]

\* The coefficient num / sqrt(radicand) is exactly -1.0.
IsExactlyMinusOne(corr) == corr[1] < 0 /\ corr[1] * corr[1] = corr[2]

\* What C25 states of a value rho returned for the slices a and b.
PearsonAsClaimed(a, b, rho) ==
    /\ ~IsSome(rho) <=>
           (Len(a) # Len(b) \/ a = << >> \/ ZeroVariance(a) \/ ZeroVariance(b))
    /\ IsSome(rho) =>
           /\ ~IsNaN(rho[1])
           /\ IncreasingLinear(a, b) => IsExactlyOne(rho[1])
           /\ DecreasingLinear(a, b) => IsExactlyMinusOne(rho[1])

\* C25: pearson::correlation(a, b) returns no result exactly when a and b
\* differ in length, are empty, or either has zero variance; for every other
\* input it returns a defined coefficient, 1.0 for an increasing linear
\* relation and -1.0 for a decreasing one.
C25_PearsonNoneIffDegenerate ==
    stat_pearson.tag = "returned" =>
        PearsonAsClaimed(stat_a, stat_b, stat_pearson.value)

\* In exact arithmetic (every sum and product below 2^53 and integral, as
\* for the 0/1 samples of the bitwise Test) the function is as C25 states.
Stat_PearsonExactAsClaimed ==
    stat_pearson.tag = "returned" =>
        PearsonAsClaimed(stat_a, stat_b, pearson_correlation(stat_a, stat_b))

\* With rounding, the function still returns no result for slices of
\* different length, empty slices and slices of length 1.
Stat_PearsonNoneOnShortInputs ==
    (stat_pearson.tag = "returned"
       /\ (Len(stat_a) # Len(stat_b) \/ Len(stat_a) <= 1)) =>
        ~IsSome(stat_pearson.value)

\* A slice with zero variance for which the function returned a value.
Stat_PearsonValueForConstantSlice ==
    /\ stat_pearson.tag = "returned"
    /\ Len(stat_a) = Len(stat_b)
    /\ ZeroVariance(stat_a)
    /\ IsSome(stat_pearson.value)

\* The rank orders of a and b are the same (reversed).
SameRankOrder(a, b) ==
    \A i, j \in 1 .. Len(a) : (a[i] < a[j]) <=> (b[i] < b[j])

ReversedRankOrder(a, b) ==
    \A i, j \in 1 .. Len(a) : (a[i] < a[j]) <=> (b[i] > b[j])

\* rho is a number in [-1, 1].
InMinusOneToOne(rho) ==
    /\ ~IsNaN(rho)
    /\ RatLE(<< 0 - 1, 1 >>, rho)
    /\ RatLE(rho, << 1, 1 >>)

\* C26: spearman::correlation(a, b) returns no result if and only if the
\* slices are empty or differ in length; for every other input it returns a
\* coefficient within [-1, 1], which is 1.0 when both slices have the same
\* rank order and -1.0 when the rank orders are exactly reversed.
C26_SpearmanDefinedInRange ==
    stat_spearman.tag = "returned" =>
        LET rho == stat_spearman.value
        IN  /\ ~IsSome(rho) <=> (stat_a = << >> \/ Len(stat_a) # Len(stat_b))
            /\ IsSome(rho) =>
                   /\ InMinusOneToOne(rho[1])
                   /\ SameRankOrder(stat_a, stat_b) => RatEq(rho[1], << 1, 1 >>)
                   /\ ReversedRankOrder(stat_a, stat_b) =>
                          RatEq(rho[1], << 0 - 1, 1 >>)

\* The function returns no result exactly for empty slices and slices of
\* different length, and for slices of length >= 2 a coefficient within
\* [-1, 1] that is 1.0 when the rank orders are the same and -1.0 when they
\* are reversed and no value is tied.
Stat_SpearmanFromLengthTwo ==
    stat_spearman.tag = "returned" =>
        LET rho == stat_spearman.value
        IN  /\ ~IsSome(rho) <=> (stat_a = << >> \/ Len(stat_a) # Len(stat_b))
            /\ (IsSome(rho) /\ Len(stat_a) >= 2) =>
                   /\ InMinusOneToOne(rho[1])
                   /\ SameRankOrder(stat_a, stat_b) => RatEq(rho[1], << 1, 1 >>)
                   /\ (ReversedRankOrder(stat_a, stat_b)
                         /\ Cardinality({ stat_a[k] : k \in 1 .. Len(stat_a) })
                                = Len(stat_a)) =>
                          RatEq(rho[1], << 0 - 1, 1 >>)

\* For slices of length 1 the function returns Some(NaN).
Stat_SpearmanLengthOneIsNaN ==
    (stat_spearman.tag = "returned" /\ Len(stat_a) = 1 /\ Len(stat_b) = 1) =>
        (IsSome(stat_spearman.value) /\ IsNaN(stat_spearman.value[1]))

(***************************************************************************)
(* Speed Test                                                              *)
(*   bitbelay-tests/src/performance/speed.rs                               *)
(* The elapsed time of a hash is not determined by the program: each       *)
(* throughput sample is drawn from Throughputs, and is 0 for an empty      *)
(* buffer (0 megabytes over a positive duration).                          *)
(***************************************************************************)
\* The longest provider input, in bytes.
MaxUnit == 2

\* The largest desired payload size, in bytes.
MaxDesired == 3

\* The most samples a Test accumulates.
MaxSpeedSamples == 3

\* The throughputs a timed hash of a non-empty buffer may measure.
Throughputs == { << 1, 1 >>, << 2, 1 >>, << 4, 1 >> }

\* The thresholds the Test is constructed with.
SpeedThresholds == { << 2, 1 >>, << 3, 1 >> }

\* Test::new
Speed_new(unit, desired_data_size_in_bytes, threshold) ==
    [ data |-> << >>, desired_data_size_in_bytes |-> desired_data_size_in_bytes,
      results |-> << >>, unit |-> unit, threshold |-> threshold ]

\* A rehydrate that keeps the bytes of the previous iteration.
rehydrate_keep(data) == data

\* `self.data.clear()` of rehydrate
rehydrate_clear(data) == << >>

\* `self.provider.provide(1)[0]`: one input of `unit` bytes, each marked
\* with the ordinal `iteration` of the iteration that asked for it.
provide_one(unit, iteration) == [ k \in 1 .. unit |-> iteration ]

\* One pass of the `while` loop of rehydrate.
rehydrate_extend(data, unit, iteration) == data \o provide_one(unit, iteration)

\* The values precision_timed_hash may return for the buffer `data`.
precision_timed_hash(data) ==
    IF data = << >> THEN { << 0, 1 >> } ELSE Throughputs

RatAdd(a, b) == << a[1] * b[2] + b[1] * a[2], a[2] * b[2] >>

RECURSIVE RatSum(_)
RatSum(s) == IF s = << >> THEN << 0, 1 >> ELSE RatAdd(Head(s), RatSum(Tail(s)))

\* `data.mean().unwrap()`: the arithmetic mean, NaN for no samples.
Mean(results) ==
    LET sum == RatSum(results) IN << sum[1], sum[2] * Len(results) >>

\* The samples in ascending order.
Sorted(results) ==
    CHOOSE s \in [ 1 .. Len(results) -> { results[k] : k \in 1 .. Len(results) } ] :
        /\ \A k \in 1 .. Len(results) - 1 : RatLE(s[k], s[k + 1])
        /\ \A v \in { results[k] : k \in 1 .. Len(results) } :
               Cardinality({ k \in 1 .. Len(results) : s[k] = v })
                   = Cardinality({ k \in 1 .. Len(results) : results[k] = v })

\* `data.median()`: the middle sample, the mean of the two middle samples
\* for an even count, NaN for no samples.
Median(results) ==
    LET n == Len(results)
        s == Sorted(results)
    IN  IF n = 0 THEN << 0, 0 >>
        ELSE IF n % 2 = 1 THEN s[(n + 1) \div 2]
        ELSE LET sum == RatAdd(s[n \div 2], s[n \div 2 + 1])
             IN  << sum[1], sum[2] * 2 >>

\* `x >= threshold` on f64: false when either side is NaN.
F64GE(x, threshold) == ~IsNaN(x) /\ ~IsNaN(threshold) /\ RatLE(threshold, x)

\* A report_section whose median module repeats the verdict of the mean.
Speed_report_section_mean_verdict(results, threshold) ==
    LET mean == Mean(results)
        median == Median(results)
        mean_module == [ name |-> "Average Speed",
                         result |-> IF F64GE(mean, threshold) THEN "Pass" ELSE "Fail" ]
        median_module == [ name |-> "Median Speed",
                           result |-> IF F64GE(mean, threshold) THEN "Pass" ELSE "Fail" ]
    IN  [ title |-> "Speed Test", modules |-> << mean_module, median_module >> ]

\* Test::report_section
Speed_report_section(results, threshold) ==
    LET mean == Mean(results)
        median == Median(results)
        mean_module == [ name |-> "Average Speed",
                         result |-> IF F64GE(mean, threshold) THEN "Pass" ELSE "Fail" ]
        median_module == [ name |-> "Median Speed",
                           result |-> IF F64GE(median, threshold) THEN "Pass" ELSE "Fail" ]
    IN  [ title |-> "Speed Test", modules |-> << mean_module, median_module >> ]

SpdInit ==
    /\ spd_unit \in 0 .. MaxUnit
    /\ spd_desired \in 0 .. MaxDesired
    /\ spd_threshold \in SpeedThresholds
    /\ LET test == Speed_new(spd_unit, spd_desired, spd_threshold)
       IN  /\ spd_data = test.data
           /\ spd_results = test.results
    /\ spd_pc = "new"
    /\ spd_iterations = 0
    /\ spd_done = 0
    /\ spd_at_call = << >>
    /\ spd_report = [ title |-> "unrendered", modules |-> << >> ]

\* run(iterations) is called.
SpdRunEnter ==
    /\ spd_pc \in { "new", "returned" }
    /\ \E iterations \in 1 .. MaxSpeedSamples :
           /\ Len(spd_results) + iterations <= MaxSpeedSamples
           /\ spd_iterations' = iterations
    /\ spd_done' = 0
    /\ spd_at_call' = spd_results
    /\ spd_pc' = "for"
    /\ spd_report' = [ title |-> "unrendered", modules |-> << >> ]
    /\ UNCHANGED << spd_unit, spd_desired, spd_threshold, spd_data, spd_results >>
    /\ UNCHANGED << gofVars, expVars, sacVars, corVars, newVars, bldVars,
                    suiteVars, statVars >>

\* A pass of the `for` loop begins: rehydrate() is entered and clears.
SpdRehydrateEnter ==
    /\ spd_pc = "for"
    /\ spd_done < spd_iterations
    /\ spd_data' = rehydrate_clear(spd_data)
    /\ spd_pc' = "while"
    /\ UNCHANGED << spd_unit, spd_desired, spd_threshold, spd_results,
                    spd_iterations, spd_done, spd_at_call, spd_report >>
    /\ UNCHANGED << gofVars, expVars, sacVars, corVars, newVars, bldVars,
                    suiteVars, statVars >>

\* One pass of the `while` loop of rehydrate().
SpdRehydrateExtend ==
    /\ spd_pc = "while"
    /\ Len(spd_data) < spd_desired
    /\ spd_data' = rehydrate_extend(spd_data, spd_unit, Len(spd_results) + 1)
    /\ UNCHANGED << spd_unit, spd_desired, spd_threshold, spd_results, spd_pc,
                    spd_iterations, spd_done, spd_at_call, spd_report >>
    /\ UNCHANGED << gofVars, expVars, sacVars, corVars, newVars, bldVars,
                    suiteVars, statVars >>

\* rehydrate() returns and the timed hash of the buffer is pushed.
SpdPushSample ==
    /\ spd_pc = "while"
    /\ ~(Len(spd_data) < spd_desired)
    /\ \E sample \in precision_timed_hash(spd_data) :
           spd_results' = Append(spd_results, sample)
    /\ spd_done' = spd_done + 1
    /\ spd_pc' = "for"
    /\ UNCHANGED << spd_unit, spd_desired, spd_threshold, spd_data,
                    spd_iterations, spd_at_call, spd_report >>
    /\ UNCHANGED << gofVars, expVars, sacVars, corVars, newVars, bldVars,
                    suiteVars, statVars >>

\* The `for` loop is exhausted and run() returns.
SpdRunReturn ==
    /\ spd_pc = "for"
    /\ spd_done = spd_iterations
    /\ spd_pc' = "returned"
    /\ UNCHANGED << spd_unit, spd_desired, spd_threshold, spd_data, spd_results,
                    spd_iterations, spd_done, spd_at_call, spd_report >>
    /\ UNCHANGED << gofVars, expVars, sacVars, corVars, newVars, bldVars,
                    suiteVars, statVars >>

SpdReportSection ==
    /\ spd_pc \in { "new", "returned" }
    /\ spd_report' = Speed_report_section(spd_results, spd_threshold)
    /\ UNCHANGED << spd_unit, spd_desired, spd_threshold, spd_data, spd_results,
                    spd_pc, spd_iterations, spd_done, spd_at_call >>
    /\ UNCHANGED << gofVars, expVars, sacVars, corVars, newVars, bldVars,
                    suiteVars, statVars >>

\* The steps of a thread inside run().
SpdRunStep ==
    SpdRehydrateEnter \/ SpdRehydrateExtend \/ SpdPushSample \/ SpdRunReturn

SpdNext == SpdRunEnter \/ SpdRunStep \/ SpdReportSection

(***************************************************************************)
(* Properties of the speed Test.                                           *)
(***************************************************************************)
\* An iteration of run() has completed and none is in progress.
AfterIteration ==
    /\ spd_pc \in { "for", "returned" }
    /\ Len(spd_results) >= 1

\* The buffer was filled in the iteration that pushed the latest sample.
NoBytesOfEarlierIterations ==
    \A k \in 1 .. Len(spd_data) : spd_data[k] = Len(spd_results)

\* The buffer holds a whole number of provider units.
WholeUnits ==
    IF spd_unit = 0 THEN Len(spd_data) = 0
    ELSE Len(spd_data) % spd_unit = 0

ReturnedWithSamples ==
    /\ spd_pc = "returned"
    /\ Len(spd_results) = Len(spd_at_call) + spd_iterations
    /\ SubSeq(spd_results, 1, Len(spd_at_call)) = spd_at_call

\* C23: run(n) always terminates, for every provider unit length (0 bytes
\* included) and every desired size, with results().len() increased by
\* exactly n and the earlier samples kept in order.
C23_RunTerminatesWithSamples ==
    (spd_pc = "for" /\ spd_done = 0) ~> ReturnedWithSamples

\* With inputs of at least one byte, or a desired size of 0, run(n)
\* terminates as C23 states.
Spd_RunTerminatesWithProgress ==
    (spd_pc = "for" /\ spd_done = 0 /\ (spd_unit >= 1 \/ spd_desired = 0))
        ~> ReturnedWithSamples

\* Whenever run() returns it has appended one sample per iteration.
Spd_OneSamplePerIteration ==
    /\ spd_pc = "returned" => ReturnedWithSamples
    /\ spd_pc \in { "for", "while" } =>
           /\ Len(spd_results) = Len(spd_at_call) + spd_done
           /\ SubSeq(spd_results, 1, Len(spd_at_call)) = spd_at_call

\* With 0-byte inputs and a positive desired size run() never returns: the
\* `while` loop of rehydrate() never exits.
Spd_ZeroUnitNeverReturns ==
    (spd_unit = 0 /\ spd_desired > 0) =>
        /\ spd_pc # "returned"
        /\ spd_results = << >>
        /\ spd_pc = "while" => Len(spd_data) < spd_desired

\* The thread is inside the `while` loop of rehydrate() with 0-byte inputs.
Spd_ZeroUnitLoopReached ==
    /\ spd_unit = 0
    /\ spd_desired > 0
    /\ spd_pc = "while"

\* C24: the report section contains exactly two modules, mean then median;
\* the mean module is Pass iff mean(samples) >= threshold and the median
\* module is Pass iff median(samples) >= threshold, each independently of
\* the other, and neither is Inconclusive.
C24_TwoIndependentModules ==
    spd_report.title # "unrendered" =>
        /\ spd_report.title = "Speed Test"
        /\ Len(spd_report.modules) = 2
        /\ spd_report.modules[1].name = "Average Speed"
        /\ spd_report.modules[2].name = "Median Speed"
        /\ spd_report.modules[1].result \in { "Pass", "Fail" }
        /\ spd_report.modules[2].result \in { "Pass", "Fail" }
        /\ spd_report.modules[1].result = "Pass"
             <=> F64GE(Mean(spd_results), spd_threshold)
        /\ spd_report.modules[2].result = "Pass"
             <=> F64GE(Median(spd_results), spd_threshold)

\* C24 witness: a section was rendered over three samples whose mean
\* reaches the threshold while their median does not.
C24_Witness ==
    /\ spd_report.title = "Speed Test"
    /\ Len(spd_results) = 3
    /\ spd_report.modules[1].result = "Pass"
    /\ spd_report.modules[2].result = "Fail"
    /\ RatLT(Median(spd_results), Mean(spd_results))

\* A section rendered before any iteration has two failing modules.
Spd_RenderBeforeRunFails ==
    (spd_report.title # "unrendered" /\ spd_results = << >>) =>
        /\ spd_report.modules[1].result = "Fail"
        /\ spd_report.modules[2].result = "Fail"

(***************************************************************************)
(* Specifications.  Each drives one state machine; the others stay in the  *)
(* state of a freshly constructed object.                                  *)
(***************************************************************************)
GoFIdle ==
    /\ gof_num_buckets = 1
    /\ gof_threshold = <<1, 20>>
    /\ gof_buckets = GoF_new(1, <<1, 20>>).buckets
    /\ gof_calls = 0
    /\ gof_cdf = <<0, 1>>
    /\ gof_p_value = [ tag |-> "unqueried", p |-> <<0, 1>> ]
    /\ gof_module = "unrendered"

ExpIdle ==
    /\ exp_build_hasher = "FortyTwo"
    /\ exp_data = << 0 >>
    /\ exp_pc = "constructed"
    /\ exp_iterations = 0
    /\ exp_done = 0
    /\ exp_previous = 0
    /\ exp_bit_changes = Zeros
    /\ exp_trace = << >>

SacIdle ==
    /\ sac_build_hasher = "FortyTwo"
    /\ sac_provider = 1
    /\ sac_iterations_per_experiment = 1
    /\ sac_max_deviance = <<1, 20>>
    /\ sac_bit_flips = Zeros
    /\ sac_total_experiments = 0
    /\ sac_ok_calls = 0
    /\ sac_flip_sum = Zeros
    /\ sac_last = "new"
    /\ sac_results = None
    /\ sac_module = "unrendered"

CorIdle ==
    /\ cor_build_hasher = "FortyTwo"
    /\ cor_bit_values = [ i \in 1 .. N |-> << >> ]
    /\ cor_threshold = <<1, 20>>
    /\ cor_hashes = << >>
    /\ cor_total = 0
    /\ cor_results = << "unqueried" >>
    /\ cor_module = "unrendered"

NewIdle ==
    /\ new_fn = "bitwise::Test::new"
    /\ new_args = [ threshold |-> <<1, 20>> ]
    /\ new_result = [ tag |-> "pending" ]

BldIdle ==
    /\ bld_kind = "report::Builder"
    /\ bld_builder = Some(ReportBuilder_default)
    /\ bld_calls = << >>
    /\ bld_last = [ tag |-> "new" ]

SuiteIdle ==
    /\ suite_kind = "avalanche"
    /\ suite_build_hasher = "FortyTwo"
    /\ suite_buckets = None
    /\ suite_tests = << >>
    /\ suite_ok_calls = 0
    /\ suite_last = [ tag |-> "new", error |-> "" ]
    /\ suite_report = [ tag |-> "unrendered" ]

StatIdle ==
    /\ stat_a = << >>
    /\ stat_b = << >>
    /\ stat_pearson = [ tag |-> "pending" ]
    /\ stat_spearman = [ tag |-> "pending" ]

SpdIdle ==
    /\ spd_unit = 1
    /\ spd_desired = 1
    /\ spd_threshold = << 2, 1 >>
    /\ spd_data = << >>
    /\ spd_results = << >>
    /\ spd_pc = "new"
    /\ spd_iterations = 0
    /\ spd_done = 0
    /\ spd_at_call = << >>
    /\ spd_report = [ title |-> "unrendered", modules |-> << >> ]

InitGoF == GoFInit /\ ExpIdle /\ SacIdle /\ CorIdle /\ NewIdle /\ BldIdle /\ SuiteIdle
    /\ StatIdle /\ SpdIdle

SpecGoF == InitGoF /\ [][GoFNext]_vars

InitExp == GoFIdle /\ ExpInit /\ SacIdle /\ CorIdle /\ NewIdle /\ BldIdle /\ SuiteIdle
    /\ StatIdle /\ SpdIdle

SpecExp == InitExp /\ [][ExpNext]_vars

InitSac == GoFIdle /\ ExpIdle /\ SacInit /\ CorIdle /\ NewIdle /\ BldIdle /\ SuiteIdle
    /\ StatIdle /\ SpdIdle

SpecSac == InitSac /\ [][SacNext]_vars

InitCor == GoFIdle /\ ExpIdle /\ SacIdle /\ CorInit /\ NewIdle /\ BldIdle /\ SuiteIdle
    /\ StatIdle /\ SpdIdle

SpecCor == InitCor /\ [][CorNext]_vars

InitNew == GoFIdle /\ ExpIdle /\ SacIdle /\ CorIdle /\ NewInit /\ BldIdle /\ SuiteIdle
    /\ StatIdle /\ SpdIdle

SpecNew == InitNew /\ [][NewNext]_vars

InitBld == GoFIdle /\ ExpIdle /\ SacIdle /\ CorIdle /\ NewIdle /\ BldInit /\ SuiteIdle
    /\ StatIdle /\ SpdIdle

SpecBld == InitBld /\ [][BldNext]_vars

InitSuite ==
    GoFIdle /\ ExpIdle /\ SacIdle /\ CorIdle /\ NewIdle /\ BldIdle /\ SuiteInit
    /\ StatIdle /\ SpdIdle

SpecSuite == InitSuite /\ [][SuiteNext]_vars

InitStat ==
    GoFIdle /\ ExpIdle /\ SacIdle /\ CorIdle /\ NewIdle /\ BldIdle /\ SuiteIdle
    /\ StatInit /\ SpdIdle

SpecStat == InitStat /\ [][StatNext]_vars

InitSpd ==
    GoFIdle /\ ExpIdle /\ SacIdle /\ CorIdle /\ NewIdle /\ BldIdle /\ SuiteIdle
    /\ StatIdle /\ SpdInit

SpecSpd == InitSpd /\ [][SpdNext]_vars

\* A thread that is inside run() keeps executing it.
SpecSpdLive == InitSpd /\ [][SpdNext]_vars /\ WF_vars(SpdRunStep)

====
